---- MODULE Spec2Model ----
(***************************************************************************)
(* Playback controller of Beat-Gen Studio (tui/services/player.py) driven  *)
(* by the exclusive "playback" worker lane of the application              *)
(* (tui/app.py).                                                           *)
(*                                                                         *)
(* Every Player coroutine is cut at its suspension points (the awaits that *)
(* really suspend: asyncio.wait_for in stop(), create_subprocess_exec, and *)
(* proc.wait()); one action is the synchronous code between two of them.   *)
(* The operating system is part of the model: a child process is alive     *)
(* until it exits, its exit becomes visible to asyncio (returncode) only   *)
(* when the child watcher reports it, and a signal that was sent does not  *)
(* end the process in the same step.                                       *)
(*                                                                         *)
(* Taken from asyncio and the platform, not from the repository:           *)
(*  - a cancelled coroutine gets CancelledError at the await it is         *)
(*    suspended in; create_subprocess_exec answers it by killing the child *)
(*    it forked, every other await of the Player lets it propagate;        *)
(*  - starting an exclusive worker cancels the worker in flight and does   *)
(*    not wait for it;                                                     *)
(*  - Process.terminate() and Process.kill() send a signal and return;     *)
(*  - unlink of a transient file succeeds;                                 *)
(*  - create_subprocess_exec raises FileNotFoundError, before it suspends, *)
(*    when the executable does not exist;                                  *)
(*  - a worker that raises ends the application unless it was declared     *)
(*    with exit_on_error=False;                                            *)
(*  - a worker started by a @work method runs as a task of its own: it    *)
(*    takes its first step after the handler that started it has returned, *)
(*    and handlers of other tasks may run before it;                       *)
(*  - an action handler (action_quit) runs in the application's message    *)
(*    loop: no key is handled while it is suspended; when the application  *)
(*    exits, the workers still running are cancelled.                      *)
(*                                                                         *)
(* Spec is the Player under the playback lane.  SpecQuit adds the user's   *)
(* quitting (action_quit), SpecSpawn executables that go missing.          *)
(* SpecChain evaluates the pure functions build_filter_chain (with the     *)
(* pitch stages of play_with_edits) and SampleEdits.is_default on          *)
(* arguments drawn in its initial state.  SpecEditor is the sample editor  *)
(* of the sound design screen over Session.edits, with the playback        *)
(* request it issues; SpecLanes the worker groups of the application;      *)
(* SpecWave evaluates get_waveform and render_waveform on decoded streams  *)
(* drawn in its initial state, SpecScan SampleManager.scan and _parse_file *)
(* on directories drawn in its initial state.  SpecSession stores and      *)
(* reads back editing models through Session.edits, SpecAdjust applies     *)
(* adjustment keys to models next to the ends of the parameter ranges.     *)
(* SpecScreen is the sound design screen with its waveform workers and the *)
(* playback request it issues, SpecGenerate (FairSpecGenerate: every       *)
(* generation subprocess finishes) the generating set and the generation   *)
(* workers, SpecSelect the selections over a samples directory, SpecRender *)
(* the render workers and their mix-config files.  In these the variables  *)
(* editor and lanes hold the fields each section names.                    *)
(*                                                                         *)
(* Writing the mix-config file and unlinking it are taken to succeed.      *)
(***************************************************************************)
EXTENDS Integers, Sequences, FiniteSets, TLC

VARIABLES process, current_file, temp_files, procs, disk, worker, nreq,
          quit, missing, args, ret, editor, lanes

vars == <<process, current_file, temp_files, procs, disk, worker, nreq,
          quit, missing, args, ret, editor, lanes>>

\* The Player, its lane and the operating system's processes and files.
player_vars == <<process, current_file, temp_files, procs, disk, worker, nreq>>

\* ---------------------------------------------------------------- bounds
\* Requests submitted to the playback lane in one run.
MaxReqs == 3

\* ------------------------------------------------------------- constants
NoProc == 0
None == "None"
Paths == {"a.wav", "b.wav"}
Durations == {1000}

Range(s) == {s[i] : i \in DOMAIN s}

\* tempfile.NamedTemporaryFile(suffix=".wav", delete=False): a fresh name.
\* The name is numbered by the render process that is spawned right after it.
TmpName(n) == "tmp" \o ToString(n) \o ".wav"

\* ------------------------------------------------------------ SampleEdits
SampleEdits(attack, release, gain, norm, hp, lp, rev, ts, te) ==
    [attack_ms |-> attack, release_ms |-> release, gain_db |-> gain,
     normalize |-> norm, hp_freq |-> hp, lp_freq |-> lp, reverse |-> rev,
     trim_start_ms |-> ts, trim_end_ms |-> te]

DefaultEdits == SampleEdits(0, 0, 0, FALSE, 20, 20000, FALSE, 0, 0)

EditsSet == {DefaultEdits, [DefaultEdits EXCEPT !.reverse = TRUE]}

IsDefaultIgnoresTrimEnd(e) == [e EXCEPT !.trim_end_ms = 0] = DefaultEdits

\* SampleEdits.is_default: the dataclass's field-by-field equality with
\* SampleEdits().
is_default(e) == e = DefaultEdits

Max(a, b) == IF a >= b THEN a ELSE b
Min(a, b) == IF a <= b THEN a ELSE b

\* build_filter_chain: the list of stages in the order the code appends them.
\* Trim offsets are in ms, as given.  The fade times are computed exactly, in
\* tenths of a ms (the inputs are whole ms, so 0.9 * effective duration is a
\* whole number of tenths), and then written with "%.3f" of their value in
\* seconds: rounded to a whole ms.  A value that lies exactly between two ms
\* is rounded as its binary double happens to lie (0.9 * 0.055 prints 0.050,
\* 0.055 - 0.9 * 0.055 prints 0.005); r says which way: r.len for the fade
\* lengths (two lengths that are both ties are the same double), r.st for the
\* start of the release.
Roundings == [len : BOOLEAN, st : BOOLEAN]
NoTies == [len |-> FALSE, st |-> FALSE]

\* f"{x:.3f}" of x10 tenths of a ms, as whole ms.
Fmt3(x10, up) ==
    IF x10 % 10 = 5
    THEN (IF up THEN (x10 \div 10) + 1 ELSE x10 \div 10)
    ELSE (x10 + 5) \div 10

TrimStagesNoClamp(e, d) ==
    IF e.trim_start_ms > 0 \/ e.trim_end_ms > 0
    THEN <<(<<"atrim", e.trim_start_ms, d - e.trim_end_ms>>), <<"asetpts">>>>
    ELSE <<>>

\* Lines 18-24.
TrimStages(e, d) ==
    IF e.trim_start_ms > 0 \/ e.trim_end_ms > 0
    THEN LET end0 == d - e.trim_end_ms
             end_ms == IF end0 < e.trim_start_ms THEN e.trim_start_ms + 50 ELSE end0
         IN <<(<<"atrim", e.trim_start_ms, end_ms>>), <<"asetpts">>>>
    ELSE <<>>

\* Lines 31-32: max(effective_dur_ms / 1000, 0.05), in tenths of a ms.
EffectiveDur10(e, d) == 10 * Max(d - e.trim_start_ms - e.trim_end_ms, 50)

FadeStagesNoCap(e, d, r) ==
    LET eff == EffectiveDur10(e, d)
        att == 10 * e.attack_ms
        rel == 10 * e.release_ms
    IN (IF e.attack_ms > 0 THEN <<(<<"afade_in", Fmt3(att, r.len)>>)>> ELSE <<>>)
       \o (IF e.release_ms > 0
           THEN <<(<<"afade_out", Fmt3(Max(eff - rel, 0), r.st), Fmt3(rel, r.len)>>)>>
           ELSE <<>>)

\* Lines 34-41.
FadeStages(e, d, r) ==
    LET eff == EffectiveDur10(e, d)
        att == Min(10 * e.attack_ms, (eff * 9) \div 10)
        rel == Min(10 * e.release_ms, (eff * 9) \div 10)
    IN (IF e.attack_ms > 0 THEN <<(<<"afade_in", Fmt3(att, r.len)>>)>> ELSE <<>>)
       \o (IF e.release_ms > 0
           THEN <<(<<"afade_out", Fmt3(Max(eff - rel, 0), r.st), Fmt3(rel, r.len)>>)>>
           ELSE <<>>)

GainFirst(e, d, r) ==
    (IF e.gain_db # 0 THEN <<(<<"volume", e.gain_db>>)>> ELSE <<>>)
    \o TrimStages(e, d)
    \o (IF e.reverse THEN <<(<<"areverse">>)>> ELSE <<>>)
    \o FadeStages(e, d, r)
    \o (IF e.hp_freq > 20 THEN <<(<<"highpass", e.hp_freq>>)>> ELSE <<>>)
    \o (IF e.lp_freq < 20000 THEN <<(<<"lowpass", e.lp_freq>>)>> ELSE <<>>)
    \o (IF e.normalize THEN <<(<<"dynaudnorm">>)>> ELSE <<>>)

GainAlways(e, d, r) ==
    TrimStages(e, d)
    \o (IF e.reverse THEN <<(<<"areverse">>)>> ELSE <<>>)
    \o FadeStages(e, d, r)
    \o <<(<<"volume", e.gain_db>>)>>
    \o (IF e.hp_freq > 20 THEN <<(<<"highpass", e.hp_freq>>)>> ELSE <<>>)
    \o (IF e.lp_freq < 20000 THEN <<(<<"lowpass", e.lp_freq>>)>> ELSE <<>>)
    \o (IF e.normalize THEN <<(<<"dynaudnorm">>)>> ELSE <<>>)

\* Lines 14-57.
build_filter_chain(e, d, r) ==
    TrimStages(e, d)
    \o (IF e.reverse THEN <<(<<"areverse">>)>> ELSE <<>>)
    \o FadeStages(e, d, r)
    \o (IF e.gain_db # 0 THEN <<(<<"volume", e.gain_db>>)>> ELSE <<>>)
    \o (IF e.hp_freq > 20 THEN <<(<<"highpass", e.hp_freq>>)>> ELSE <<>>)
    \o (IF e.lp_freq < 20000 THEN <<(<<"lowpass", e.lp_freq>>)>> ELSE <<>>)
    \o (IF e.normalize THEN <<(<<"dynaudnorm">>)>> ELSE <<>>)

EditsChainAlwaysPitch(e, d, pitch, r) ==
    build_filter_chain(e, d, r) \o <<(<<"asetrate", pitch>>), <<"aresample">>>>

\* play_with_edits, lines 126-132: the edit chain plus the pitch stages.
EditsChain(e, d, pitch, r) ==
    build_filter_chain(e, d, r)
    \o (IF pitch # 0 THEN <<(<<"asetrate", pitch>>), <<"aresample">>>> ELSE <<>>)

\* --------------------------------------------------- calls on the Player
PlayCall(path) ==
    [op |-> "play", path |-> path, semitones |-> 0, edits |-> DefaultEdits,
     duration_ms |-> 0]
PlayPitchedCall(path, semitones) ==
    [op |-> "play_pitched", path |-> path, semitones |-> semitones,
     edits |-> DefaultEdits, duration_ms |-> 0]
PlayWithEditsCall(path, edits, duration_ms, pitch) ==
    [op |-> "play_with_edits", path |-> path, semitones |-> pitch,
     edits |-> edits, duration_ms |-> duration_ms]
StopCall ==
    [op |-> "stop", path |-> None, semitones |-> 0, edits |-> DefaultEdits,
     duration_ms |-> 0]

\* BeatGenStudio._do_play
DoPlay(path, pitch_offset) ==
    IF pitch_offset # 0 THEN PlayPitchedCall(path, pitch_offset) ELSE PlayCall(path)

\* BeatGenStudio._do_play_with_edits
DoPlayWithEdits(path, edits, duration_ms, pitch) ==
    PlayWithEditsCall(path, edits, duration_ms, pitch)

\* BeatGenStudio._do_stop
DoStop == StopCall

\* What a worker of the playback lane may be asked to run: the three workers
\* of the application, and Player.play_pitched called with semitones = 0
\* (which _do_play never does, but the Player's interface allows).
Calls ==
    {DoPlay(p, 0) : p \in Paths}
    \cup {DoPlay("a.wav", 1)}
    \cup {DoPlayWithEdits("a.wav", e, d, 0) : e \in EditsSet, d \in Durations}
    \cup {DoStop}
    \cup {PlayPitchedCall("a.wav", 0)}

\* ------------------------------------------------------ machine snapshots
\* The Player's fields and the operating system's view, as one value, so that
\* the straight-line code between two suspension points composes.
M == [process |-> process, current_file |-> current_file,
      temp_files |-> temp_files, procs |-> procs, disk |-> disk]

SetM(m) ==
    /\ process' = m.process
    /\ current_file' = m.current_file
    /\ temp_files' = m.temp_files
    /\ procs' = m.procs
    /\ disk' = m.disk

IsPlayingHandleOnly(m) == m.process # NoProc

\* Player.is_playing
IsPlaying(m) == m.process # NoProc /\ ~m.procs[m.process].reported

\* Player.current_file
CurrentFile(m) == IF IsPlaying(m) THEN m.current_file ELSE None

CleanupTempNoUnlink(m) == [m EXCEPT !.temp_files = <<>>]

\* Player._cleanup_temp
CleanupTemp(m) ==
    [m EXCEPT !.disk = @ \ Range(m.temp_files), !.temp_files = <<>>]

\* A signal sent to a child: recorded on a process that is still alive, lost on
\* one that has already exited.  SIGKILL is never downgraded.
Signal(m, pid, s) ==
    IF m.procs[pid].alive /\ m.procs[pid].sig # "kill"
    THEN [m EXCEPT !.procs[pid].sig = s]
    ELSE m

\* asyncio.create_subprocess_exec up to its first suspension: the child is
\* forked before the coroutine yields.
SpawnProc(m, kind, file, out) ==
    [m EXCEPT !.procs = Append(@,
        [kind |-> kind, file |-> file, out |-> out, alive |-> TRUE,
         sig |-> "none", opened |-> FALSE, code |-> 0, reported |-> FALSE])]

\* A child whose exit was recorded and that neither the Player's handle nor a
\* suspended coroutine refers to has left the process table and the program.
Reaped ==
    [kind |-> "reaped", file |-> None, out |-> None, alive |-> FALSE,
     sig |-> "none", opened |-> FALSE, code |-> 0, reported |-> TRUE]

Reap(m, child) ==
    [m EXCEPT !.procs = [p \in DOMAIN m.procs |->
        IF m.procs[p].reported /\ p # m.process /\ p # child
        THEN Reaped ELSE m.procs[p]]]

\* ------------------------------------------------- segments of coroutines
\* What a worker has done when it next suspends or returns: the machine it
\* leaves, where it is suspended (pc), what it still has to do after the
\* stop() it is in (k, target), the child it is waiting on, how it ended
\* (result) and which path its last stop() took (via).  after_stop, set when
\* the worker is submitted, is the path of the stop() that returned just before
\* it ("no" when the previous request was not a stop() that returned).
Seg(m, pc, k, target, child, result, via) ==
    [m |-> m, pc |-> pc, k |-> k, target |-> target, child |-> child,
     result |-> result, via |-> via]

PlayLaunchIgnoresMissing(m, path, via) ==
    Seg(SpawnProc([m EXCEPT !.current_file = path], "afplay", path, None),
        "spawn_play", "return", path, Len(m.procs) + 1, "running", via)

\* Player.play, lines 76-81, up to the suspension in create_subprocess_exec,
\* which raises FileNotFoundError before it suspends when there is no afplay.
PlayLaunch(m, path, via) ==
    IF "afplay" \in missing
    THEN Seg([m EXCEPT !.current_file = path], "done", "return", None, NoProc,
             "raised", via)
    ELSE Seg(SpawnProc([m EXCEPT !.current_file = path], "afplay", path, None),
             "spawn_play", "return", path, Len(m.procs) + 1, "running", via)

\* Player.play_pitched lines 103-115 and Player.play_with_edits lines 139-150:
\* create and register the transient file, start the renderer on it; without
\* an ffmpeg create_subprocess_exec raises and the file stays registered.
RenderLaunch(m, path, via) ==
    LET tmp_path == TmpName(Len(m.procs) + 1)
        m1 == [m EXCEPT !.disk = @ \cup {tmp_path},
                        !.temp_files = Append(@, tmp_path)]
    IN IF "ffmpeg" \in missing
       THEN Seg(m1, "done", "return", None, NoProc, "raised", via)
       ELSE Seg(SpawnProc(m1, "ffmpeg", path, tmp_path),
                "spawn_ffmpeg", "return", tmp_path, Len(m.procs) + 1, "running",
                via)

\* The code that follows a completed stop() in its caller.
Continue(m, k, target, via) ==
    CASE k = "play" -> PlayLaunch(m, target, via)
      [] k = "render" -> RenderLaunch(m, target, via)
      [] OTHER -> Seg(m, "done", "return", None, NoProc, "returned", via)

KillUncaught(m, pid) ==
    [m |-> Signal(m, pid, "kill"),
     exc |-> IF m.procs[pid].alive THEN "none" ELSE "ProcessLookupError"]

\* Player.stop lines 89-92: kill() under `except ProcessLookupError: pass`.
KillCaught(m, pid) == [m |-> Signal(m, pid, "kill"), exc |-> "none"]

StopTailKeepsHandle(m) == CleanupTemp([m EXCEPT !.current_file = None])

\* Player.stop lines 93-95.
StopTail(m) == CleanupTemp([m EXCEPT !.process = NoProc, !.current_file = None])

\* Player.stop lines 88-95, entered through the except clause.
\* self._process is read again at line 90: when another coroutine's stop() has
\* set it to None in the meantime, None.kill() raises AttributeError.
AfterKill(m, k, target, via) ==
    IF m.process = NoProc
    THEN Seg(m, "done", "return", None, NoProc, "raised", via)
    ELSE LET r == KillCaught(m, m.process)
         IN IF r.exc # "none"
            THEN Seg(r.m, "done", "return", None, NoProc, "raised", via)
            ELSE Continue(StopTail(r.m), k, target, via)

\* Player.stop from its entry to its first suspension (wait_for, line 87) or,
\* when it does not suspend, through its caller's continuation.  ple: the
\* terminate() of line 86 raised ProcessLookupError.
StopThen(m, k, target, ple) ==
    IF IsPlaying(m)
    THEN IF ple
         THEN AfterKill(m, k, target, "gone")
         ELSE Seg(Signal(m, m.process, "term"), "stop_wait", k, target,
                  m.process, "running", "none")
    ELSE Continue(StopTail(m), k, target,
                  IF m.temp_files = <<>> THEN "idle" ELSE "idle_cleanup")

\* terminate() can raise ProcessLookupError only on a child that has exited
\* and whose exit asyncio has not yet recorded.
MayRaisePLE(m) == IsPlaying(m) /\ ~m.procs[m.process].alive

PlayPitchedAlwaysRenders(path, semitones) == [k |-> "render", target |-> path]

\* Player.play_pitched lines 99-102: what follows the stop().
PlayPitchedEntry(path, semitones) ==
    IF semitones = 0 THEN [k |-> "play", target |-> path]
    ELSE [k |-> "render", target |-> path]

PlayWithEditsAlwaysRenders(path, edits, duration_ms, pitch) ==
    [k |-> "render", target |-> path]

\* Player.play_with_edits lines 126-138.  Whether the chain is empty does not
\* depend on how a tie rounds.
PlayWithEditsEntry(path, edits, duration_ms, pitch) ==
    IF EditsChain(edits, duration_ms, pitch, NoTies) = <<>>
    THEN [k |-> "play", target |-> path]
    ELSE [k |-> "render", target |-> path]

Entry(c) ==
    CASE c.op = "play" -> [k |-> "play", target |-> c.path]
      [] c.op = "play_pitched" -> PlayPitchedEntry(c.path, c.semitones)
      [] c.op = "play_with_edits" ->
            PlayWithEditsEntry(c.path, c.edits, c.duration_ms, c.semitones)
      [] OTHER -> [k |-> "return", target |-> None]

RenderResultIgnoresCode(m, child, tmp_path, ple) ==
    StopThen(m, "play", tmp_path, ple)

\* Lines 116-118 and 151-153: the renderer's exit code decides.
RenderResult(m, child, tmp_path, ple) ==
    IF m.procs[child].code = 0
    THEN StopThen(m, "play", tmp_path, ple)
    ELSE Seg(m, "done", "return", None, NoProc, "returned", "render_failed")

\* @work(exclusive=True, group="playback"): the worker in flight is cancelled.
\* CancelledError reaches it at the await it is suspended in; only
\* create_subprocess_exec reacts to it (it closes the transport, which kills
\* the child it has just forked); stop() and proc.wait() let it propagate.
CancelWorker(m, w) ==
    IF w.pc \in {"spawn_play", "spawn_ffmpeg"} THEN Signal(m, w.child, "kill") ELSE m

\* ---------------------------------------------------------------- state
NoCall ==
    [op |-> "none", path |-> None, semitones |-> 0, edits |-> DefaultEdits,
     duration_ms |-> 0]

\* action_quit has not been invoked.
NoQuit == [pc |-> "no", child |-> NoProc]

\* No pure function is being evaluated.
NoArgs == [edits |-> DefaultEdits, duration_ms |-> 0, pitch |-> 0]
NoRet == [op |-> "none", val |-> <<>>]

\* SoundDesignScreen.__init__ with a new session: no instrument selected, the
\* editing model a fresh SampleEdits(), the editor closed, nothing stored.
\* session_edits is Session.edits (a dict: a function on the keys it holds);
\* request is the last playback request the screen issued, keys counts the
\* handled keys.
NoRequest == [pc |-> "none", by_ref |-> FALSE, edits |-> DefaultEdits,
              issued |-> DefaultEdits, chain |-> <<>>]
EditorInit ==
    [session_edits |-> [i \in {} |-> DefaultEdits], current_instrument |-> "",
     current_edits |-> DefaultEdits, editor_mode |-> FALSE,
     editor_param_idx |-> 0, request |-> NoRequest, keys |-> 0,
     last_key |-> ""]

\* The worker groups of the application (the group= of each @work), no worker
\* started yet.
Groups == {"playback", "waveform", "generate", "sample_gen", "render"}
NoLanes == [g \in Groups |-> <<>>]

\* Player.__init__, an empty playback lane, nothing spawned yet.
PlayerInit ==
    /\ process = NoProc
    /\ current_file = None
    /\ temp_files = <<>>
    /\ procs = <<>>
    /\ disk = {}
    /\ worker = [call |-> NoCall, pc |-> "done", k |-> "return", target |-> None,
                 child |-> NoProc, result |-> "returned", via |-> "none",
                 after_stop |-> "no"]
    /\ nreq = 0

Init ==
    /\ PlayerInit
    /\ quit = NoQuit
    /\ missing = {}
    /\ args = NoArgs
    /\ ret = NoRet
    /\ editor = EditorInit
    /\ lanes = NoLanes

Apply(r) ==
    /\ quit.pc \in {"no", "stop_wait"}
    /\ SetM(Reap(r.m, r.child))
    /\ worker' = [worker EXCEPT !.pc = r.pc, !.k = r.k, !.target = r.target,
                                !.child = r.child, !.result = r.result,
                                !.via = r.via]
    /\ UNCHANGED <<nreq, quit, missing, args, ret, editor, lanes>>

\* ---------------------------------------------------------------- actions
\* play_sample / play_sample_with_edits / stop_playback: a new worker enters
\* the playback lane and supersedes the one in flight.  A worker of this lane
\* that raised has ended the application (exit_on_error is left at its
\* default), which then takes no request.
Submit(c) ==
    /\ quit.pc = "no" /\ worker.result # "raised"
    /\ nreq < MaxReqs
    /\ nreq' = nreq + 1
    /\ SetM(Reap(CancelWorker(M, worker), NoProc))
    /\ worker' = [call |-> c, pc |-> "start", k |-> "return", target |-> None,
                  child |-> NoProc, result |-> "running", via |-> "none",
                  after_stop |-> IF worker.call.op = "stop" /\ worker.result = "returned"
                                 THEN worker.via ELSE "no"]
    /\ UNCHANGED <<quit, missing, args, ret, editor, lanes>>

\* The worker's first run, up to its first suspension.
Begin ==
    /\ worker.pc = "start"
    /\ \E ple \in BOOLEAN :
          /\ ple => MayRaisePLE(M)
          /\ LET e == Entry(worker.call) IN Apply(StopThen(M, e.k, e.target, ple))

\* wait_for(self._process.wait(), 1.0) returns: the exit was recorded.
StopWaitDone ==
    /\ worker.pc = "stop_wait"
    /\ procs[worker.child].reported
    /\ Apply(Continue(StopTail(M), worker.k, worker.target, "exited"))

\* wait_for times out.
StopWaitTimeout ==
    /\ worker.pc = "stop_wait"
    /\ ~procs[worker.child].reported
    /\ Apply(AfterKill(M, worker.k, worker.target, "timeout"))

\* create_subprocess_exec("afplay", ...) returns: line 77 stores the handle.
SpawnPlayDone ==
    /\ worker.pc = "spawn_play"
    /\ Apply(Seg([M EXCEPT !.process = worker.child], "done", "return",
                 None, NoProc, "returned", worker.via))

\* create_subprocess_exec("ffmpeg", ...) returns, then `await proc.wait()`,
\* which does not suspend when the exit is already recorded.
SpawnFfmpegDone ==
    /\ worker.pc = "spawn_ffmpeg"
    /\ IF procs[worker.child].reported
       THEN \E ple \in BOOLEAN :
               /\ ple => MayRaisePLE(M)
               /\ Apply(RenderResult(M, worker.child, worker.target, ple))
       ELSE Apply(Seg(M, "render_wait", "return", worker.target, worker.child,
                      "running", worker.via))

\* proc.wait() returns.
RenderWaitDone ==
    /\ worker.pc = "render_wait"
    /\ procs[worker.child].reported
    /\ \E ple \in BOOLEAN :
          /\ ple => MayRaisePLE(M)
          /\ Apply(RenderResult(M, worker.child, worker.target, ple))

\* ----------------------------------------------- the operating system
\* ffmpeg -y opens (creates or truncates) its output file.
FfmpegOpen(p) ==
    /\ procs[p].kind = "ffmpeg" /\ procs[p].alive /\ ~procs[p].opened
    /\ procs' = [procs EXCEPT ![p].opened = TRUE]
    /\ disk' = disk \cup {procs[p].out}
    /\ UNCHANGED <<process, current_file, temp_files, worker, nreq,
                 quit, missing, args, ret, editor, lanes>>

\* A child exits: on its own (playback over, render done or failed) or from a
\* signal.  A render can succeed only if it was not signalled and wrote its
\* output.
ExitCodes(pr) ==
    IF pr.sig # "none" THEN {1}
    ELSE IF pr.kind = "ffmpeg" THEN (IF pr.opened THEN {0, 1} ELSE {1})
    ELSE {0}

ProcExit(p) ==
    /\ procs[p].alive
    /\ \E c \in ExitCodes(procs[p]) :
          procs' = [procs EXCEPT ![p].alive = FALSE, ![p].code = c]
    /\ UNCHANGED <<process, current_file, temp_files, disk, worker, nreq,
                 quit, missing, args, ret, editor, lanes>>

\* asyncio's child watcher records the exit: returncode is no longer None.
ProcReport(p) ==
    /\ ~procs[p].alive /\ ~procs[p].reported
    /\ procs' = Reap([M EXCEPT !.procs[p].reported = TRUE], worker.child).procs
    /\ UNCHANGED <<process, current_file, temp_files, disk, worker, nreq,
                 quit, missing, args, ret, editor, lanes>>

Next ==
    \/ \E c \in Calls : Submit(c)
    \/ Begin
    \/ StopWaitDone
    \/ StopWaitTimeout
    \/ SpawnPlayDone
    \/ SpawnFfmpegDone
    \/ RenderWaitDone
    \/ \E p \in DOMAIN procs : FfmpegOpen(p)
    \/ \E p \in DOMAIN procs : ProcExit(p)
    \/ \E p \in DOMAIN procs : ProcReport(p)

Spec == Init /\ [][Next]_vars

\* ------------------------------------------------ missing executables
\* The platform: an executable the Player runs is not (or no longer) installed.
\* The Player meets the change only where it launches a process, and every
\* launch follows a request's start, so the change is placed there: between
\* the submission of a request and its first run.  The run's bound leaves at
\* least one more request after a change.
Executables == {"afplay", "ffmpeg"}

Uninstall(x) ==
    /\ worker.pc = "start" /\ nreq < MaxReqs
    /\ x \notin missing
    /\ missing' = missing \cup {x}
    /\ UNCHANGED <<player_vars, quit, args, ret, editor, lanes>>

NextSpawn ==
    \/ Next
    \/ \E x \in Executables : Uninstall(x)

SpecSpawn == Init /\ [][NextSpawn]_vars

\* ------------------------------------------------ shutdown (action_quit)
\* action_quit runs in the application's message loop, beside the worker of
\* the playback lane; while it is suspended the application handles no key,
\* so no new request enters the lane, but the worker in flight goes on.
\*
\* self.exit() and the teardown of the event loop: the worker in flight is
\* cancelled at the await it is suspended in.  how: "exited" after
\* self.exit(), "raised" when cleanup() raised and the application crashed.
Exit(m, how) ==
    /\ SetM(Reap(IF worker.result = "running" THEN CancelWorker(m, worker) ELSE m,
                 NoProc))
    /\ worker' = IF worker.result = "running"
                 THEN [worker EXCEPT !.pc = "done", !.k = "return",
                                     !.target = None, !.child = NoProc,
                                     !.result = "cancelled"]
                 ELSE worker
    /\ quit' = [pc |-> how, child |-> NoProc]
    /\ UNCHANGED <<nreq, missing, args, ret, editor, lanes>>

\* cleanup() = stop(), lines 88-95 entered through the except clause, then
\* self.exit().
QuitAfterKill(m) ==
    IF m.process = NoProc
    THEN Exit(m, "raised")
    ELSE Exit(StopTail(KillCaught(m, m.process).m), "exited")

\* The user quits: cleanup() up to the suspension in wait_for, or, when
\* nothing is playing, through self.exit().
QuitBegin ==
    /\ quit.pc = "no" /\ worker.result # "raised"
    /\ IF IsPlaying(M)
       THEN \/ MayRaisePLE(M) /\ QuitAfterKill(M)
            \/ /\ SetM(Signal(M, process, "term"))
               /\ quit' = [pc |-> "stop_wait", child |-> process]
               /\ UNCHANGED <<worker, nreq, missing, args, ret, editor, lanes>>
       ELSE Exit(StopTail(M), "exited")

\* wait_for in cleanup() returns: the exit of the process was recorded.
QuitStopWaitDone ==
    /\ quit.pc = "stop_wait"
    /\ procs[quit.child].reported
    /\ Exit(StopTail(M), "exited")

\* wait_for in cleanup() times out.
QuitStopWaitTimeout ==
    /\ quit.pc = "stop_wait"
    /\ ~procs[quit.child].reported
    /\ QuitAfterKill(M)

NextQuit ==
    \/ Next
    \/ QuitBegin
    \/ QuitStopWaitDone
    \/ QuitStopWaitTimeout

SpecQuit == Init /\ [][NextQuit]_vars

\* ------------------------------------- the pure functions, on their own
\* Values of the fields of SampleEdits, of duration_ms and of pitch: each
\* stage's enabling value and its identity, lengths below and above the 90 %
\* cap, trims that meet, cross and leave room, a duration whose cap is a tie.
AttackVals == {0, 100, 5000}
ReleaseVals == {0, 100, 5000}
GainVals == {-3, 0, 3}
HpVals == {20, 100}
LpVals == {5000, 20000}
TrimVals == {0, 300, 500, 900}
ChainDurations == {-100, 0, 55, 1000, 1020}
Pitches == {-1, 0, 1}

AllEdits ==
    {SampleEdits(a, rl, g, n, hp, lp, rv, ts, te) :
        a \in AttackVals, rl \in ReleaseVals, g \in GainVals, n \in BOOLEAN,
        hp \in HpVals, lp \in LpVals, rv \in BOOLEAN,
        ts \in TrimVals, te \in TrimVals}

ChainArgs == [edits : AllEdits, duration_ms : ChainDurations, pitch : Pitches]

InitChain ==
    /\ PlayerInit
    /\ quit = NoQuit
    /\ missing = {}
    /\ args \in ChainArgs
    /\ ret = NoRet
    /\ editor = EditorInit
    /\ lanes = NoLanes

\* chain = build_filter_chain(edits, duration_ms) and the pitch stages, as
\* play_with_edits compiles them (lines 126-132).
Compile ==
    /\ ret.op = "none"
    /\ \E r \in Roundings :
          ret' = [op |-> "compile",
                  val |-> EditsChain(args.edits, args.duration_ms, args.pitch, r)]
    /\ UNCHANGED <<player_vars, quit, missing, args, editor, lanes>>

\* edits.is_default()
IsDefault ==
    /\ ret.op = "none"
    /\ ret' = [op |-> "is_default", val |-> is_default(args.edits)]
    /\ UNCHANGED <<player_vars, quit, missing, args, editor, lanes>>

NextChain ==
    \/ Compile
    \/ IsDefault

SpecChain == InitChain /\ [][NextChain]_vars

\* ------------------------------------------------------ the sample editor
\* SoundDesignScreen's editor over Session.edits.  One action is one handled
\* key or action of the screen, or the first step of the playback worker the
\* screen started.
EditedInstruments == {"kick", "bass"}

\* Keys and actions handled by the screen in one run.
MaxKeys == 6

\* The sample under the cursor: its duration as on_waveform_loaded stored it,
\* previewed at pitch 0.
SampleDurationMs == 1000

EDITOR_PARAMS ==
    << [attr |-> "attack_ms",     fine |-> 10,  coarse |-> 100,  vmin |-> 0,   vmax |-> 2000],
       [attr |-> "release_ms",    fine |-> 10,  coarse |-> 100,  vmin |-> 0,   vmax |-> 2000],
       [attr |-> "gain_db",       fine |-> 1,   coarse |-> 3,    vmin |-> -24, vmax |-> 12],
       [attr |-> "hp_freq",       fine |-> 10,  coarse |-> 100,  vmin |-> 20,  vmax |-> 5000],
       [attr |-> "lp_freq",       fine |-> 100, coarse |-> 1000, vmin |-> 200, vmax |-> 20000],
       [attr |-> "trim_start_ms", fine |-> 10,  coarse |-> 100,  vmin |-> 0,   vmax |-> 10000],
       [attr |-> "trim_end_ms",   fine |-> 10,  coarse |-> 100,  vmin |-> 0,   vmax |-> 10000] >>

AdjustKeys == {"left", "right", "shift+left", "shift+right"}

\* SampleEdits.to_dict (dataclasses.asdict: a new dict of the nine fields) and
\* SampleEdits.from_dict (the known keys of the dict, defaults for the rest).
EditFields == DOMAIN DefaultEdits
to_dict(e) == [k \in EditFields |-> e[k]]
FromDictDropsFlags(d) ==
    [k \in EditFields |->
        IF k \in DOMAIN d /\ k \notin {"reverse", "normalize"} THEN d[k] ELSE DefaultEdits[k]]
from_dict(d) == [k \in EditFields |-> IF k \in DOMAIN d THEN d[k] ELSE DefaultEdits[k]]

\* Session.get_edits: a new SampleEdits from the stored dict, a default one
\* when nothing (or an empty dict) is stored.
get_edits(edits, instrument) ==
    IF instrument \in DOMAIN edits /\ DOMAIN edits[instrument] # {}
    THEN from_dict(edits[instrument])
    ELSE DefaultEdits

SetEditsAlwaysStores(edits, instrument, e) ==
    [i \in DOMAIN edits \cup {instrument} |->
        IF i = instrument THEN to_dict(e) ELSE edits[i]]

\* Session.set_edits.
set_edits(edits, instrument, e) ==
    IF is_default(e)
    THEN [i \in DOMAIN edits \ {instrument} |-> edits[i]]
    ELSE [i \in DOMAIN edits \cup {instrument} |->
            IF i = instrument THEN to_dict(e) ELSE edits[i]]

AdjustParamNoClamp(e, idx, key) ==
    LET p == EDITOR_PARAMS[idx + 1]
        step == IF key \in {"shift+left", "shift+right"} THEN p.coarse ELSE p.fine
        direction == IF key \in {"right", "shift+right"} THEN 1 ELSE -1
    IN [e EXCEPT ![p.attr] = e[p.attr] + step * direction]

\* _adjust_param: step the selected parameter and clamp it to its range.
adjust_param(e, idx, key) ==
    LET p == EDITOR_PARAMS[idx + 1]
        current == e[p.attr]
        step == IF key \in {"shift+left", "shift+right"} THEN p.coarse ELSE p.fine
        direction == IF key \in {"right", "shift+right"} THEN 1 ELSE -1
        new_val == Max(p.vmin, Min(p.vmax, current + step * direction))
    IN [e EXCEPT ![p.attr] = new_val]

\* The screen replaces its _current_edits by a new object: a request that was
\* handed the old object keeps it, with the value it has now.
Detach(ed) ==
    IF ed.request.by_ref
    THEN [ed.request EXCEPT !.by_ref = FALSE, !.edits = ed.current_edits]
    ELSE ed.request

\* _load_edits_for_instrument.
load_edits(ed) ==
    [ed EXCEPT !.current_edits = get_edits(ed.session_edits, ed.current_instrument),
               !.request = Detach(ed)]

\* _save_edits (the session file written by _auto_save is not modelled).
save_edits(ed) ==
    [ed EXCEPT !.session_edits =
        set_edits(ed.session_edits, ed.current_instrument, ed.current_edits)]

Handled(ed, key) == [ed EXCEPT !.keys = ed.keys + 1, !.last_key = key]

EditorStep(new) ==
    /\ editor.keys < MaxKeys
    /\ editor' = new
    /\ UNCHANGED <<player_vars, quit, missing, args, ret, lanes>>

\* _select_instrument (a highlighted or selected row, tab, shift+tab).
SelectInstrument(i) ==
    EditorStep(Handled(load_edits([editor EXCEPT !.current_instrument = i]), "select"))

\* action_toggle_editor.
ToggleEditor ==
    LET ed == [editor EXCEPT !.editor_mode = ~editor.editor_mode]
    IN EditorStep(Handled(IF ed.editor_mode THEN load_edits(ed) ELSE ed, "e"))

\* on_key, "n" and "v": flip the flag of the object in place and save.
KeyToggle(key) ==
    /\ editor.editor_mode
    /\ LET e == editor.current_edits
           ne == IF key = "n" THEN [e EXCEPT !.normalize = ~e.normalize]
                              ELSE [e EXCEPT !.reverse = ~e.reverse]
       IN EditorStep(Handled(save_edits([editor EXCEPT !.current_edits = ne]), key))

\* on_key, "up" and "down".
KeyMove(key) ==
    /\ editor.editor_mode
    /\ LET idx == IF key = "up"
                  THEN Max(0, editor.editor_param_idx - 1)
                  ELSE Min(Len(EDITOR_PARAMS) - 1, editor.editor_param_idx + 1)
       IN EditorStep(Handled([editor EXCEPT !.editor_param_idx = idx], key))

\* on_key, the four adjusting keys: _adjust_param sets the attribute of the
\* object in place and saves.
KeyAdjust(key) ==
    /\ editor.editor_mode
    /\ LET ne == adjust_param(editor.current_edits, editor.editor_param_idx, key)
       IN EditorStep(Handled(save_edits([editor EXCEPT !.current_edits = ne]), key))

\* action_go_back_or_close_editor with the editor open.
CloseEditor ==
    /\ editor.editor_mode
    /\ EditorStep(Handled([editor EXCEPT !.editor_mode = FALSE], "escape"))

\* _play_current_sample (space, a highlighted variant, a finished generation):
\* with the editor open on a non-default model the _current_edits object itself
\* goes to play_sample_with_edits, which starts the worker; the worker has not
\* run yet when the handler returns.  A plain play_sample request carries no
\* edit model.
PlayCurrentSample ==
    LET req == IF editor.editor_mode /\ ~is_default(editor.current_edits)
               THEN [pc |-> "pending", by_ref |-> TRUE, edits |-> DefaultEdits,
                     issued |-> editor.current_edits, chain |-> <<>>]
               ELSE [NoRequest EXCEPT !.pc = "plain"]
    IN EditorStep(Handled([editor EXCEPT !.request = req], "play"))

\* The worker's first step: _do_play_with_edits calls play_with_edits, whose
\* first statement compiles the chain from the object it was handed.
WorkerCompiles ==
    /\ editor.request.pc = "pending"
    /\ \E r \in Roundings :
         LET obj == IF editor.request.by_ref THEN editor.current_edits
                                             ELSE editor.request.edits
         IN editor' = [editor EXCEPT
                         !.request.pc = "compiled",
                         !.request.chain = EditsChain(obj, SampleDurationMs, 0, r)]
    /\ UNCHANGED <<player_vars, quit, missing, args, ret, lanes>>

NextEditor ==
    \/ \E i \in EditedInstruments : SelectInstrument(i)
    \/ ToggleEditor
    \/ CloseEditor
    \/ \E key \in {"n", "v"} : KeyToggle(key)
    \/ \E key \in {"up", "down"} : KeyMove(key)
    \/ \E key \in AdjustKeys : KeyAdjust(key)
    \/ PlayCurrentSample
    \/ WorkerCompiles

SpecEditor == Init /\ [][NextEditor]_vars

\* ------------------------------------------------------- the worker lanes
\* The @work groups of BeatGenApp.  lanes[g] lists the workers started in
\* group g, oldest first.  A worker of the playback group is followed only as
\* a worker here (its processes are the Player's, above); a worker of another
\* group runs its external commands one after the other: it is suspended in
\* create_subprocess_exec ("spawn"), then in communicate() or wait() ("wait").
\* A child is "alive", "killed" (signalled by asyncio, not yet gone) or
\* "exited".  The exit status of a child is not followed.

\* Workers started in one run, over all groups.
MaxWorkers == 3

\* exclusive=True of the @work decorator.
Exclusive(g) == g \in {"playback", "waveform", "generate", "render"}

\* External commands a worker of the group runs: ffmpeg then ffprobe for the
\* waveform, one node command for the others.
Commands(g) == IF g = "waveform" THEN 2 ELSE IF g = "playback" THEN 0 ELSE 1

NewWorker(g) ==
    IF Commands(g) = 0
    THEN [state |-> "running", pc |-> "await", round |-> 0, child |-> "none"]
    ELSE [state |-> "running", pc |-> "spawn", round |-> 1, child |-> "alive"]

\* Worker.cancel(): the worker is CANCELLED at once and its coroutine gets
\* CancelledError at the await it is suspended in.  create_subprocess_exec
\* kills the child it forked; communicate() and wait() leave the child alone.
Cancelled(w) ==
    IF w.state # "running" THEN w
    ELSE [w EXCEPT !.state = "cancelled",
                   !.child = IF w.pc = "spawn" THEN "killed" ELSE w.child,
                   !.pc = "done"]

\* WorkerManager.add_worker: an exclusive worker cancels the workers of its
\* group first, and is started without waiting for them.
StartedLane(g) ==
    IF Exclusive(g)
    THEN Append([i \in DOMAIN lanes[g] |-> Cancelled(lanes[g][i])], NewWorker(g))
    ELSE Append(lanes[g], NewWorker(g))

Started == LET n(g) == Len(lanes[g])
           IN n("playback") + n("waveform") + n("generate") + n("sample_gen") + n("render")

LaneStep(g, new) ==
    /\ lanes' = [lanes EXCEPT ![g] = new]
    /\ UNCHANGED <<player_vars, quit, missing, args, ret, editor>>

\* A call of a @work method (play_sample, _load_waveform_worker, run_generate,
\* generate_drum_sample, run_render, ...).
StartWorker(g) ==
    /\ Started < MaxWorkers
    /\ LaneStep(g, StartedLane(g))

\* create_subprocess_exec returns.
LaneSpawned(g, i) ==
    /\ lanes[g][i].state = "running" /\ lanes[g][i].pc = "spawn"
    /\ LaneStep(g, [lanes[g] EXCEPT ![i].pc = "wait"])

\* A child process ends, on its own or from the signal it was sent.
LaneChildExit(g, i) ==
    /\ lanes[g][i].child \in {"alive", "killed"}
    /\ LaneStep(g, [lanes[g] EXCEPT ![i].child = "exited"])

\* communicate() or wait() returns: the worker goes on to its next command or
\* finishes.
LaneResume(g, i) ==
    /\ lanes[g][i].state = "running" /\ lanes[g][i].pc = "wait"
    /\ lanes[g][i].child = "exited"
    /\ LaneStep(g, IF lanes[g][i].round < Commands(g)
                   THEN [lanes[g] EXCEPT ![i].pc = "spawn", ![i].child = "alive",
                                         ![i].round = lanes[g][i].round + 1]
                   ELSE [lanes[g] EXCEPT ![i].pc = "done", ![i].state = "success"])

\* A playback worker finishes (the Player's coroutine returns).
LaneReturn(g, i) ==
    /\ lanes[g][i].state = "running" /\ lanes[g][i].pc = "await"
    /\ LaneStep(g, [lanes[g] EXCEPT ![i].pc = "done", ![i].state = "success"])

NextLanes ==
    \/ \E g \in Groups : StartWorker(g)
    \/ \E g \in Groups : \E i \in DOMAIN lanes[g] : LaneSpawned(g, i)
    \/ \E g \in Groups : \E i \in DOMAIN lanes[g] : LaneChildExit(g, i)
    \/ \E g \in Groups : \E i \in DOMAIN lanes[g] : LaneResume(g, i)
    \/ \E g \in Groups : \E i \in DOMAIN lanes[g] : LaneReturn(g, i)

SpecLanes == Init /\ [][NextLanes]_vars

\* ----------------------------------------------------------- the waveform
\* get_waveform after the decode step, and render_waveform.  The decoded
\* stream is given as bytes; an envelope value is the exact quotient
\* num / den (for peaks of 16-bit samples int(p * 7) of the double p is the
\* floor of the exact 7 * num / den).
SampleVals == {-32768, -8, 0, 2, 4}
MaxSamples == 4
MaxBins == 5
MaxWidth == 6

\* The 8 block characters U+2581..U+2588, by code point.
WAVEFORM_BLOCKS == <<9601, 9602, 9603, 9604, 9605, 9606, 9607, 9608>>

\* What ffmpeg -f s16le writes for a sample, and struct.unpack("<h") of two
\* bytes.
S16le(v) == LET u == (v + 65536) % 65536 IN <<u % 256, u \div 256>>
UnpackH(lo, hi) == LET u == lo + 256 * hi IN IF u >= 32768 THEN u - 65536 ELSE u

RECURSIVE Pcm(_)
Pcm(samples) ==
    IF samples = <<>> THEN <<>> ELSE S16le(Head(samples)) \o Pcm(Tail(samples))

SamplesUpTo(n) == UNION {[1..k -> SampleVals] : k \in 0..n}

Abs(x) == IF x < 0 THEN -x ELSE x

RECURSIVE MaxOf(_)
MaxOf(seq) ==
    IF Len(seq) = 1 THEN seq[1] ELSE Max(seq[1], MaxOf(Tail(seq)))

Zero == [num |-> 0, den |-> 1]

BinSizeFloor(n_samples, bins) == n_samples \div bins

\* Line 26.
BinSize(n_samples, bins) == Max(1, n_samples \div bins)

\* Lines 22-35: the peak of each bin.
BinPeaks(raw, bins) ==
    LET n_samples == Len(raw) \div 2
        samples == [k \in 1..n_samples |-> UnpackH(raw[2 * k - 1], raw[2 * k])]
        bin_size == BinSize(n_samples, bins)
    IN [b \in 1..bins |->
          LET start == (b - 1) * bin_size
              end == Min(start + bin_size, n_samples)
          IN IF start >= n_samples THEN 0
             ELSE IF end <= start THEN 0
             ELSE MaxOf([k \in 1..(end - start) |-> Abs(samples[start + k])])]

NormalizeAlways(peaks) ==
    LET mx == IF peaks = <<>> THEN 1 ELSE MaxOf(peaks)
    IN [k \in DOMAIN peaks |-> [num |-> peaks[k], den |-> mx]]

\* Lines 37-40: divide by the largest peak, when it is positive.
Normalize(peaks) ==
    LET mx == IF peaks = <<>> THEN 1 ELSE MaxOf(peaks)
    IN IF mx > 0
       THEN [k \in DOMAIN peaks |-> [num |-> peaks[k], den |-> mx]]
       ELSE [k \in DOMAIN peaks |-> [num |-> peaks[k], den |-> 1]]

ZeroFilledDefault(bins) == [k \in 1..50 |-> Zero]

\* Line 19: [0.0] * bins.
ZeroFilled(bins) == [k \in 1..bins |-> Zero]

\* get_waveform, from the bytes communicate() returned.
get_waveform(raw, bins) ==
    IF Len(raw) < 2 THEN ZeroFilled(bins) ELSE Normalize(BinPeaks(raw, bins))

\* peaks[:width].
SliceTo(peaks, width) ==
    IF width >= 0 THEN SubSeq(peaks, 1, Min(Len(peaks), width))
    ELSE SubSeq(peaks, 1, Max(0, Len(peaks) + width))

\* Line 49: min(int(p * 7), 7).
GlyphIndex(p) == Min((p.num * (Len(WAVEFORM_BLOCKS) - 1)) \div p.den,
                     Len(WAVEFORM_BLOCKS) - 1)

RenderIgnoresWidth(peaks, width) ==
    [k \in DOMAIN peaks |-> WAVEFORM_BLOCKS[GlyphIndex(peaks[k]) + 1]]

\* render_waveform.
render_waveform(peaks, width) ==
    LET shown == SliceTo(peaks, width)
    IN [k \in DOMAIN shown |-> WAVEFORM_BLOCKS[GlyphIndex(shown[k]) + 1]]

\* The bytes of the decoded stream: whole samples and possibly one odd byte.
WaveArgs == [samples : SamplesUpTo(MaxSamples), odd : BOOLEAN, bins : 1..MaxBins]

Raw == Pcm(args.samples) \o (IF args.odd THEN <<1>> ELSE <<>>)

InitWave ==
    /\ PlayerInit
    /\ quit = NoQuit
    /\ missing = {}
    /\ args \in WaveArgs
    /\ ret = NoRet
    /\ editor = EditorInit
    /\ lanes = NoLanes

\* peaks = await get_waveform(path, bins).
Extract ==
    /\ ret.op = "none"
    /\ ret' = [op |-> "extract", val |-> get_waveform(Raw, args.bins)]
    /\ UNCHANGED <<player_vars, quit, missing, args, editor, lanes>>

\* render_waveform(peaks, width) of the envelope extracted.
Render ==
    /\ ret.op = "extract"
    /\ \E width \in 0..MaxWidth :
         ret' = [op |-> "render", val |-> render_waveform(ret.val, width),
                 peaks |-> ret.val, width |-> width]
    /\ UNCHANGED <<player_vars, quit, missing, args, editor, lanes>>

NextWave == Extract \/ Render

SpecWave == InitWave /\ [][NextWave]_vars

\* --------------------------------------------------- the sample catalogue
\* SampleManager.scan and _parse_file.  A file name is the sequence of its
\* characters; the size of a file, and the duration estimated from it, are not
\* followed.
DRUM_INSTRUMENTS == <<"kick", "snare", "hihat", "hihat-open", "rimshot", "clap">>
PITCHED_INSTRUMENTS == <<"bass", "lead", "pad", "arp", "fx", "subBass">>
TEXTURE_INSTRUMENTS == <<"vocalChop", "texture", "noise", "scratch", "atmosphere", "stab">>
ALL_INSTRUMENTS == DRUM_INSTRUMENTS \o PITCHED_INSTRUMENTS \o TEXTURE_INSTRUMENTS

DRUM_NOTE_MAP ==
    (36 :> "kick") @@ (38 :> "snare") @@ (42 :> "hihat") @@ (46 :> "hihat-open") @@
    (37 :> "rimshot") @@ (39 :> "clap") @@ (44 :> "pedal-hihat") @@ (49 :> "crash") @@
    (51 :> "ride") @@ (56 :> "cowbell") @@ (75 :> "clave")

\* The characters of each instrument name.
Spell ==
    ("kick" :> <<"k", "i", "c", "k">>) @@
    ("snare" :> <<"s", "n", "a", "r", "e">>) @@
    ("hihat" :> <<"h", "i", "h", "a", "t">>) @@
    ("hihat-open" :> <<"h", "i", "h", "a", "t", "-", "o", "p", "e", "n">>) @@
    ("rimshot" :> <<"r", "i", "m", "s", "h", "o", "t">>) @@
    ("clap" :> <<"c", "l", "a", "p">>) @@
    ("bass" :> <<"b", "a", "s", "s">>) @@
    ("lead" :> <<"l", "e", "a", "d">>) @@
    ("pad" :> <<"p", "a", "d">>) @@
    ("arp" :> <<"a", "r", "p">>) @@
    ("fx" :> <<"f", "x">>) @@
    ("subBass" :> <<"s", "u", "b", "B", "a", "s", "s">>) @@
    ("vocalChop" :> <<"v", "o", "c", "a", "l", "C", "h", "o", "p">>) @@
    ("texture" :> <<"t", "e", "x", "t", "u", "r", "e">>) @@
    ("noise" :> <<"n", "o", "i", "s", "e">>) @@
    ("scratch" :> <<"s", "c", "r", "a", "t", "c", "h">>) @@
    ("atmosphere" :> <<"a", "t", "m", "o", "s", "p", "h", "e", "r", "e">>) @@
    ("stab" :> <<"s", "t", "a", "b">>) @@
    ("pedal-hihat" :> <<"p", "e", "d", "a", "l", "-", "h", "i", "h", "a", "t">>) @@
    ("crash" :> <<"c", "r", "a", "s", "h">>) @@
    ("ride" :> <<"r", "i", "d", "e">>) @@
    ("cowbell" :> <<"c", "o", "w", "b", "e", "l", "l">>) @@
    ("clave" :> <<"c", "l", "a", "v", "e">>)

\* The characters that occur in file names, in the order of their code points.
DigitChars == <<"0", "1", "2", "3", "4", "5", "6", "7", "8", "9">>
UpperChars == <<"A", "B", "C", "D", "E", "F", "G", "H", "I", "J", "K", "L", "M", "N", "O", "P", "Q", "R", "S", "T", "U", "V", "W", "X", "Y", "Z">>
LowerChars == <<"a", "b", "c", "d", "e", "f", "g", "h", "i", "j", "k", "l", "m", "n", "o", "p", "q", "r", "s", "t", "u", "v", "w", "x", "y", "z">>
CharOrder == <<"-", ".">> \o DigitChars \o UpperChars \o <<"_">> \o LowerChars

Digits == Range(DigitChars)
Letters == Range(UpperChars) \cup Range(LowerChars)

IndexIn(seq, c) == CHOOSE i \in DOMAIN seq : seq[i] = c

\* str.lower().
LowerChar(c) == IF c \in Range(UpperChars) THEN LowerChars[IndexIn(UpperChars, c)] ELSE c
Lower(name) == [k \in DOMAIN name |-> LowerChar(name[k])]

\* int() of a string of digits.
RECURSIVE ToInt(_)
ToInt(ds) ==
    IF ds = <<>> THEN 0
    ELSE 10 * ToInt(SubSeq(ds, 1, Len(ds) - 1)) + (IndexIn(DigitChars, ds[Len(ds)]) - 1)

\* The length of the longest prefix of name made of characters of class.
RECURSIVE PrefixLen(_, _)
PrefixLen(name, class) ==
    IF name # <<>> /\ Head(name) \in class THEN 1 + PrefixLen(Tail(name), class) ELSE 0

\* Path.suffix and Path.stem: split at the last dot, unless it is the first
\* or the last character.
LastDot(name) ==
    IF \E i \in DOMAIN name : name[i] = "."
    THEN CHOOSE i \in DOMAIN name : name[i] = "." /\ \A j \in DOMAIN name : name[j] = "." => j <= i
    ELSE 0
HasSuffix(name) == 1 < LastDot(name) /\ LastDot(name) < Len(name)
Suffix(name) == IF HasSuffix(name) THEN SubSeq(name, LastDot(name), Len(name)) ELSE <<>>
Stem(name) == IF HasSuffix(name) THEN SubSeq(name, 1, LastDot(name) - 1) ELSE name

AudioSuffixes == {<<".", "m", "p", "3">>, <<".", "w", "a", "v">>}

\* A SampleFile; NoNum stands for None in variant_num and midi_note, and
\* NoSample for the None that _parse_file returns.
NoNum == -1
SampleFile(filename, instrument, variant_num, midi_note) ==
    [filename |-> filename, instrument |-> instrument,
     variant_num |-> variant_num, midi_note |-> midi_note]
NoSample == SampleFile(<<>>, "", NoNum, NoNum)

\* re.match(r'^(\d+)-(.+)', name): the digits, a dash, at least one more
\* character.
DrumMatch(name) ==
    LET k == PrefixLen(name, Digits)
    IN IF k >= 1 /\ Len(name) >= k + 2 /\ name[k + 1] = "-"
       THEN [matched |-> TRUE, note |-> ToInt(SubSeq(name, 1, k))]
       ELSE [matched |-> FALSE, note |-> NoNum]

\* re.match(r'^([a-zA-Z]+)-v(\d+)', name): letters, "-v", digits; what follows
\* the digits is not looked at.
InstMatch(name) ==
    LET k == PrefixLen(name, Letters)
        d == IF Len(name) >= k + 3 THEN PrefixLen(SubSeq(name, k + 3, Len(name)), Digits) ELSE 0
    IN IF k >= 1 /\ Len(name) >= k + 3 /\ name[k + 1] = "-" /\ name[k + 2] = "v" /\ d >= 1
       THEN [matched |-> TRUE, inst |-> SubSeq(name, 1, k),
             variant |-> ToInt(SubSeq(name, k + 3, k + 2 + d))]
       ELSE [matched |-> FALSE, inst |-> <<>>, variant |-> NoNum]

InstrumentSet == Range(ALL_INSTRUMENTS)

\* The first instrument of ALL_INSTRUMENTS whose lower-cased name is name
\* lower-cased, "" when there is none.
BareMatch(name) ==
    LET hits == {i \in DOMAIN ALL_INSTRUMENTS : Lower(Spell[ALL_INSTRUMENTS[i]]) = Lower(name)}
    IN IF hits = {} THEN ""
       ELSE ALL_INSTRUMENTS[CHOOSE i \in hits : \A j \in hits : i <= j]

ParseFileNoteAsVariant(filename) ==
    LET name == Stem(filename)
        dm == DrumMatch(name)
    IN IF dm.matched /\ dm.note \in DOMAIN DRUM_NOTE_MAP
       THEN SampleFile(filename, DRUM_NOTE_MAP[dm.note], dm.note, NoNum)
       ELSE NoSample

\* _parse_file: the drum pattern, then the variant pattern, then the bare
\* name; None when none of them gives an instrument.
parse_file(filename) ==
    LET name == Stem(filename)
        dm == DrumMatch(name)
        im == InstMatch(name)
    IN IF dm.matched /\ dm.note \in DOMAIN DRUM_NOTE_MAP
       THEN SampleFile(filename, DRUM_NOTE_MAP[dm.note], NoNum, dm.note)
       ELSE IF im.matched /\ \E i \in InstrumentSet : Spell[i] = im.inst
       THEN SampleFile(filename, CHOOSE i \in InstrumentSet : Spell[i] = im.inst,
                       im.variant, NoNum)
       ELSE IF BareMatch(name) # "" THEN SampleFile(filename, BareMatch(name), NoNum, NoNum)
       ELSE NoSample

\* The order of sorted(self.dir.iterdir()): by the characters' code points.
RECURSIVE LexLess(_, _)
LexLess(a, b) ==
    IF a = <<>> THEN b # <<>>
    ELSE IF b = <<>> THEN FALSE
    ELSE IF a[1] = b[1] THEN LexLess(Tail(a), Tail(b))
    ELSE IndexIn(CharOrder, a[1]) < IndexIn(CharOrder, b[1])

RECURSIVE Sorted(_)
Sorted(files) ==
    IF files = {} THEN <<>>
    ELSE LET first == CHOOSE f \in files : \A g \in files \ {f} : LexLess(f, g)
         IN <<first>> \o Sorted(files \ {first})

IsAudio(f) == Suffix(f) \in AudioSuffixes

IsInBucket(sample, inst) == sample # NoSample /\ sample.instrument = inst

ScanKeepsEverything(dir) ==
    LET files == SelectSeq(Sorted(dir.files), IsAudio)
        samples == [k \in DOMAIN files |-> parse_file(files[k])]
        keys == InstrumentSet \cup ({samples[k].instrument : k \in DOMAIN samples} \ {""})
    IN [inst \in keys |-> SelectSeq(samples, LAMBDA x : IsInBucket(x, inst))]

\* scan: a bucket for each of ALL_INSTRUMENTS, filled in the sorted order of
\* the audio files whose instrument has a bucket.
scan(dir) ==
    IF ~dir.exists THEN [inst \in InstrumentSet |-> <<>>]
    ELSE LET files == SelectSeq(Sorted(dir.files), IsAudio)
             samples == [k \in DOMAIN files |-> parse_file(files[k])]
         IN [inst \in InstrumentSet |->
               SelectSeq(samples, LAMBDA x : IsInBucket(x, inst))]

\* The file names the directory is filled from.
PoolFile ==
    [f36_kick_wav |-> <<"3", "6", "-", "k", "i", "c", "k", ".", "w", "a", "v">>,
     f44_pedal_wav |-> <<"4", "4", "-", "p", "e", "d", "a", "l", ".", "w", "a", "v">>,
     f49_crash_wav |-> <<"4", "9", "-", "c", "r", "a", "s", "h", ".", "w", "a", "v">>,
     f99_unknown_wav |-> <<"9", "9", "-", "u", "n", "k", "n", "o", "w", "n", ".", "w", "a", "v">>,
     f46_oh_mp3 |-> <<"4", "6", "-", "o", "h", ".", "m", "p", "3">>,
     f36_v1_wav |-> <<"3", "6", "-", "v", "1", ".", "w", "a", "v">>,
     fbass_v2_wav |-> <<"b", "a", "s", "s", "-", "v", "2", ".", "w", "a", "v">>,
     fsubBass_v10_mp3 |-> <<"s", "u", "b", "B", "a", "s", "s", "-", "v", "1", "0", ".", "m", "p", "3">>,
     fhihat_open_v2_wav |-> <<"h", "i", "h", "a", "t", "-", "o", "p", "e", "n", "-", "v", "2", ".", "w", "a", "v">>,
     ffoo_v1_wav |-> <<"f", "o", "o", "-", "v", "1", ".", "w", "a", "v">>,
     fsnare_wav |-> <<"s", "n", "a", "r", "e", ".", "w", "a", "v">>,
     fKick_mp3 |-> <<"K", "i", "c", "k", ".", "m", "p", "3">>,
     fkick_txt |-> <<"k", "i", "c", "k", ".", "t", "x", "t">>]

FilePool == {PoolFile[k] : k \in DOMAIN PoolFile}

\* Files in the directory.
MaxFiles == 3

ScanArgs ==
    {[exists |-> FALSE, files |-> {}]} \cup
    {[exists |-> TRUE, files |-> fs] : fs \in {x \in SUBSET FilePool : Cardinality(x) <= MaxFiles}}

InitScan ==
    /\ PlayerInit
    /\ quit = NoQuit
    /\ missing = {}
    /\ args \in ScanArgs
    /\ ret = NoRet
    /\ editor = EditorInit
    /\ lanes = NoLanes

\* self._samples = self._sample_mgr.scan().
Scan ==
    /\ ret.op = "none"
    /\ ret' = [op |-> "scan", val |-> scan(args)]
    /\ UNCHANGED <<player_vars, quit, missing, args, editor, lanes>>

\* _parse_file of one audio file of the directory, as scan calls it.
ParseFile ==
    /\ ret.op = "none"
    /\ \E f \in args.files :
         /\ IsAudio(f)
         /\ ret' = [op |-> "parse", val |-> parse_file(f), file |-> f]
    /\ UNCHANGED <<player_vars, quit, missing, args, editor, lanes>>

NextScan == Scan \/ ParseFile

SpecScan == InitScan /\ [][NextScan]_vars

\* ---------------------------------------------------- the persisted edits
\* Session.set_edits followed by Session.get_edits, on a Session.edits map
\* drawn in the initial state.  A stored record is what to_dict wrote, or what
\* Session.from_dict read from a session file: a dict that may lack fields,
\* hold a field the model does not know, or be empty.
SessionModels ==
    {DefaultEdits,
     [DefaultEdits EXCEPT !.reverse = TRUE],
     [DefaultEdits EXCEPT !.gain_db = 3, !.attack_ms = 100],
     [DefaultEdits EXCEPT !.trim_end_ms = 300, !.lp_freq = 5000, !.normalize = TRUE]}

StoredDicts ==
    {to_dict(e) : e \in SessionModels \ {DefaultEdits}}
        \cup {[reverse |-> TRUE], [gain_db |-> 3, version |-> 2], [k \in {} |-> 0]}

SessionMaps ==
    UNION {[insts -> StoredDicts] : insts \in SUBSET EditedInstruments}

SessionArgs == [edits : SessionMaps, instrument : EditedInstruments, model : SessionModels]

InitSession ==
    /\ PlayerInit
    /\ quit = NoQuit
    /\ missing = {}
    /\ args \in SessionArgs
    /\ ret = NoRet
    /\ editor = EditorInit
    /\ lanes = NoLanes

\* session.get_edits(instrument) on the map as it is.
GetEdits ==
    /\ ret.op = "none"
    /\ \E i \in EditedInstruments :
         ret' = [op |-> "get", val |-> get_edits(args.edits, i), instrument |-> i,
                 edits |-> args.edits]
    /\ UNCHANGED <<player_vars, quit, missing, args, editor, lanes>>

\* session.set_edits(instrument, model); session.get_edits(instrument).
SetThenGet ==
    /\ ret.op = "none"
    /\ LET after == set_edits(args.edits, args.instrument, args.model)
       IN ret' = [op |-> "set_get", val |-> get_edits(after, args.instrument),
                  instrument |-> args.instrument, edits |-> after]
    /\ UNCHANGED <<player_vars, quit, missing, args, editor, lanes>>

NextSession == GetEdits \/ SetThenGet

SpecSession == InitSession /\ [][NextSession]_vars

\* ------------------------------------------------- the editor's adjustments
\* _adjust_param applied again and again to a model the editor can have
\* reached from the default one: each field is a whole number of fine steps
\* from its default, drawn next to the ends of its range.
MaxAdjust == 3

NearEnds ==
    [attack_ms |-> {0, 10, 1950, 2000}, release_ms |-> {0, 1990, 2000},
     gain_db |-> {-24, -23, 0, 10, 12}, hp_freq |-> {20, 30, 4950, 5000},
     lp_freq |-> {200, 300, 19500, 20000}, trim_start_ms |-> {0, 9990, 10000},
     trim_end_ms |-> {0, 50, 10000}]

AdjustStarts ==
    {[DefaultEdits EXCEPT ![EDITOR_PARAMS[i].attr] = v] :
        <<i, v>> \in {<<j, w>> \in (DOMAIN EDITOR_PARAMS) \X (-24..20000) :
                        w \in NearEnds[EDITOR_PARAMS[j].attr]}}

InitAdjust ==
    /\ PlayerInit
    /\ quit = NoQuit
    /\ missing = {}
    /\ args \in {[edits |-> m] : m \in AdjustStarts}
    /\ ret = [op |-> "none", val |-> args.edits, n |-> 0]
    /\ editor = EditorInit
    /\ lanes = NoLanes

\* One adjusting key on the parameter under the cursor.
AdjustParam ==
    /\ ret.n < MaxAdjust
    /\ \E idx \in 0..(Len(EDITOR_PARAMS) - 1) : \E key \in AdjustKeys :
         ret' = [op |-> "adjust", val |-> adjust_param(ret.val, idx, key),
                 before |-> ret.val, idx |-> idx, key |-> key, n |-> ret.n + 1]
    /\ UNCHANGED <<player_vars, quit, missing, args, editor, lanes>>

NextAdjust == AdjustParam

SpecAdjust == InitAdjust /\ [][NextAdjust]_vars

\* ------------------------------------------------- waveform of the editor
\* SoundDesignScreen with the variants of one instrument listed: the
\* highlighted variant, the editor's waveform and duration, the waveform
\* workers of the application (lanes["waveform"], oldest first) and the last
\* playback request the screen issued.  `requested` is the sample of the last
\* extraction that was asked for and `deliveries` counts on_waveform_loaded
\* calls; neither is a field of the program.

\* Waveform workers started in one run.
MaxLoads == 3

\* The variants listed, and what ffprobe reports for each, in ms.
Variants == {"kick-v1.wav", "kick-v2.wav"}
DecodedMs == [p \in Variants |-> IF p = "kick-v1.wav" THEN 300 ELSE 800]

\* get_waveform(path, bins=50): the envelope of the file at path.
PeaksOf(path) == <<"peaks", path>>

WaveformWorkerNoCancel(ws, path) ==
    Append(ws, [state |-> "running", pc |-> "get_waveform", path |-> path])

\* _load_waveform_worker: exclusive=True cancels the workers of the group,
\* wherever they are suspended, then the new worker is started.
WaveformWorker(ws, path) ==
    Append([i \in DOMAIN ws |->
               IF ws[i].state = "running"
               THEN [ws[i] EXCEPT !.state = "cancelled", !.pc = "done"]
               ELSE ws[i]],
           [state |-> "running", pc |-> "get_waveform", path |-> path])

\* SoundDesignScreen._load_waveform, for the highlighted variant.
LoadWaveform(s) ==
    IF s.ed.highlighted # None
    THEN [ed |-> [s.ed EXCEPT !.requested = s.ed.highlighted],
          ws |-> WaveformWorker(s.ws, s.ed.highlighted)]
    ELSE [ed |-> [s.ed EXCEPT !.waveform_peaks = <<>>, !.sample_duration_ms = 0],
          ws |-> s.ws]

\* SoundDesignScreen._play_current_sample.
PlayCurrent(s, path) ==
    IF s.ed.editor_mode /\ ~is_default(s.ed.current_edits)
    THEN [s EXCEPT !.ed.request =
             [op |-> "play_with_edits", path |-> path,
              duration_ms |-> s.ed.sample_duration_ms]]
    ELSE [s EXCEPT !.ed.request = [op |-> "play", path |-> path, duration_ms |-> 0]]

\* SoundDesignScreen.__init__ and on_mount: browse mode, no waveform, and the
\* edits the session holds for the instrument.
InitScreen ==
    /\ PlayerInit
    /\ quit = NoQuit
    /\ missing = {}
    /\ args \in {[edits |-> e] : e \in EditsSet}
    /\ ret = NoRet
    /\ editor = [highlighted |-> None, editor_mode |-> FALSE,
                 current_edits |-> DefaultEdits, waveform_peaks |-> <<>>,
                 sample_duration_ms |-> 0,
                 request |-> [op |-> "none", path |-> None, duration_ms |-> 0],
                 requested |-> None, deliveries |-> 0]
    /\ lanes = NoLanes

ScreenStep(s) ==
    /\ Len(s.ws) <= MaxLoads
    /\ editor' = s.ed
    /\ lanes' = [lanes EXCEPT !["waveform"] = s.ws]
    /\ UNCHANGED <<player_vars, quit, missing, args, ret>>

Screen == [ed |-> editor, ws |-> lanes["waveform"]]

\* on_list_view_highlighted for the variant list: in editor mode the waveform
\* of the new variant is requested, then the variant is played.
Highlighted(p) ==
    LET s0 == [Screen EXCEPT !.ed.highlighted = p]
        s1 == IF editor.editor_mode THEN LoadWaveform(s0) ELSE s0
    IN ScreenStep(PlayCurrent(s1, p))

\* action_toggle_editor.
ToggleEditorMode ==
    LET s0 == [Screen EXCEPT !.ed.editor_mode = ~editor.editor_mode]
    IN ScreenStep(IF s0.ed.editor_mode
                  THEN LoadWaveform([s0 EXCEPT !.ed.current_edits = args.edits])
                  ELSE s0)

\* action_play_stop: stops what is playing, else plays the highlighted
\* variant.
PlayStop ==
    \E playing \in BOOLEAN :
       IF playing
       THEN ScreenStep([Screen EXCEPT !.ed.request =
                          [op |-> "stop", path |-> None, duration_ms |-> 0]])
       ELSE /\ editor.highlighted # None
            /\ ScreenStep(PlayCurrent(Screen, editor.highlighted))

\* _worker_waveform: get_waveform returns, get_duration_ms is awaited.
WaveformExtracted(i) ==
    /\ lanes["waveform"][i].state = "running"
    /\ lanes["waveform"][i].pc = "get_waveform"
    /\ ScreenStep([Screen EXCEPT !.ws[i].pc = "get_duration_ms"])

\* _worker_waveform: get_duration_ms returns and on_waveform_loaded stores
\* the envelope and the duration.
WaveformLoaded(i) ==
    /\ lanes["waveform"][i].state = "running"
    /\ lanes["waveform"][i].pc = "get_duration_ms"
    /\ LET path == lanes["waveform"][i].path
       IN ScreenStep([Screen EXCEPT
             !.ws[i].pc = "done", !.ws[i].state = "success",
             !.ed.waveform_peaks = PeaksOf(path),
             !.ed.sample_duration_ms = DecodedMs[path],
             !.ed.deliveries = (@ + 1) % 2])

NextScreen ==
    \/ \E p \in Variants : Highlighted(p)
    \/ ToggleEditorMode
    \/ PlayStop
    \/ \E i \in DOMAIN lanes["waveform"] : WaveformExtracted(i)
    \/ \E i \in DOMAIN lanes["waveform"] : WaveformLoaded(i)

SpecScreen == InitScreen /\ [][NextScreen]_vars

\* ------------------------------------------------------ sample generation
\* SoundDesignScreen._generating and the generation workers of the
\* application (lanes["sample_gen"], not exclusive).  The sound design screen
\* stays on the screen stack under the mixer, so it keeps its fields while
\* the mixer is the active screen.

\* Generation workers started in one run.
MaxGens == 3

InitGenerate ==
    /\ PlayerInit
    /\ quit = NoQuit
    /\ missing = {}
    /\ args = NoArgs
    /\ ret = NoRet
    /\ editor = [generating |-> {}, screen |-> "sound_design"]
    /\ lanes = NoLanes

GenerateStep(ed, ws) ==
    /\ editor' = ed
    /\ lanes' = [lanes EXCEPT !["sample_gen"] = ws]
    /\ UNCHANGED <<player_vars, quit, missing, args, ret>>

\* _generate_for_instrument with a prompt: the instrument enters _generating
\* and generate_drum_sample or generate_instrument_sample starts a worker.
GenerateForInstrument(inst) ==
    /\ editor.screen = "sound_design"
    /\ Len(lanes["sample_gen"]) < MaxGens
    /\ GenerateStep([editor EXCEPT !.generating = @ \cup {inst}],
                    Append(lanes["sample_gen"],
                           [state |-> "running", instrument |-> inst]))

\* action_go_mixer, and MixerScreen.action_go_back.
GoMixer ==
    /\ editor.screen = "sound_design"
    /\ GenerateStep([editor EXCEPT !.screen = "mixer"], lanes["sample_gen"])

GoBack ==
    /\ editor.screen = "mixer"
    /\ GenerateStep([editor EXCEPT !.screen = "sound_design"], lanes["sample_gen"])

\* _notify_generation_complete: only a screen that has on_generation_complete
\* (the sound design screen) is told, and discards the instrument.
NotifyGenerationComplete(ed, inst) ==
    IF ed.screen = "sound_design"
    THEN [ed EXCEPT !.generating = @ \ {inst}]
    ELSE ed

\* _worker_drum_sample / _worker_instrument_sample: the subprocess has
\* finished.  Exit code 0: the screen is notified; otherwise generate_sample
\* raises RuntimeError and the worker only shows a notification.
GenerationDone(i) ==
    /\ i \in DOMAIN lanes["sample_gen"]
    /\ lanes["sample_gen"][i].state = "running"
    /\ \E code \in {0, 1} :
          IF code = 0
          THEN GenerateStep(
                  NotifyGenerationComplete(editor, lanes["sample_gen"][i].instrument),
                  [lanes["sample_gen"] EXCEPT ![i].state = "success"])
          ELSE GenerateStep(editor,
                  [lanes["sample_gen"] EXCEPT ![i].state = "failed"])

NextGenerate ==
    \/ \E inst \in EditedInstruments : GenerateForInstrument(inst)
    \/ GoMixer
    \/ GoBack
    \/ \E i \in 1..MaxGens : GenerationDone(i)

SpecGenerate == InitGenerate /\ [][NextGenerate]_vars

\* Every generation subprocess finishes; the user owes no further action.
FairSpecGenerate ==
    SpecGenerate /\ \A i \in 1..MaxGens : WF_vars(GenerationDone(i))

\* ------------------------------------------------- selections and variants
\* SoundDesignScreen over a samples directory: the directory's files, the
\* latest scan (self._samples), the instrument shown, the highlighted item of
\* the variant list and Session.selections (a dict: a function on the
\* instruments it holds).  Playback and the generation worker a re-roll
\* starts are followed above; here a re-roll only marks the instrument as
\* generating.
NoFile == <<>>

Listed(ed) ==
    {ed.samples[ed.current_instrument][k].filename :
        k \in DOMAIN ed.samples[ed.current_instrument]}

\* SampleManager.delete_sample, then _refresh_samples.
DeleteAndRescan(ed, f) ==
    LET files == ed.files \ {f}
    IN [ed EXCEPT !.files = files,
                  !.samples = scan([exists |-> TRUE, files |-> files])]

\* on_mount: the directory is scanned, nothing is selected.
InitSelect ==
    /\ PlayerInit
    /\ quit = NoQuit
    /\ missing = {}
    /\ args = NoArgs
    /\ ret = NoRet
    /\ \E files \in {{PoolFile.f36_kick_wav, PoolFile.fKick_mp3,
                     PoolFile.fbass_v2_wav, PoolFile.fsnare_wav}} :
          editor = [files |-> files,
                    samples |-> scan([exists |-> TRUE, files |-> files]),
                    current_instrument |-> "kick", highlighted |-> NoFile,
                    selections |-> [i \in {} |-> NoFile], generating |-> {}]
    /\ lanes = NoLanes

\* _refresh_variant_list rebuilds the list: the highlight is dropped or lands
\* on one of the new items.
SelectStep(ed) ==
    /\ \E h \in {NoFile} \cup Listed(ed) : editor' = [ed EXCEPT !.highlighted = h]
    /\ UNCHANGED <<player_vars, quit, missing, args, ret, lanes>>

\* _select_instrument.
ShowInstrument(inst) ==
    SelectStep([editor EXCEPT !.current_instrument = inst])

\* The cursor of the variant list moves to an item.
MoveCursor(f) ==
    /\ f \in Listed(editor)
    /\ editor' = [editor EXCEPT !.highlighted = f]
    /\ UNCHANGED <<player_vars, quit, missing, args, ret, lanes>>

\* action_select_variant.
SelectVariant ==
    /\ editor.highlighted # NoFile
    /\ SelectStep([editor EXCEPT !.selections =
          [i \in DOMAIN @ \cup {editor.current_instrument} |->
              IF i = editor.current_instrument THEN editor.highlighted ELSE @[i]]])

\* action_delete_variant.
DeleteVariant ==
    /\ editor.highlighted \in Listed(editor)
    /\ LET inst == editor.current_instrument
           ed == IF inst \in DOMAIN editor.selections
                    /\ editor.selections[inst] = editor.highlighted
                 THEN [editor EXCEPT !.selections =
                          [i \in DOMAIN @ \ {inst} |-> @[i]]]
                 ELSE editor
       IN SelectStep(DeleteAndRescan(ed, editor.highlighted))

\* action_reroll.
Reroll ==
    /\ editor.highlighted \in Listed(editor)
    /\ SelectStep([DeleteAndRescan(editor, editor.highlighted)
                     EXCEPT !.generating = @ \cup {editor.current_instrument}])

NextSelect ==
    \/ \E inst \in EditedInstruments : ShowInstrument(inst)
    \/ \E f \in FilePool : MoveCursor(f)
    \/ SelectVariant
    \/ DeleteVariant
    \/ Reroll

SpecSelect == InitSelect /\ [][NextSelect]_vars

\* ---------------------------------------------------- full-track renders
\* The render workers of the application (lanes["render"], exclusive) and the
\* mix-config files they write into the temporary directory (disk).  A
\* worker that is cancelled gets CancelledError when its task next runs: at
\* the await of render_fulltrack, or, when it has not run yet, before its
\* first statement.

\* Render workers started in one run.
MaxRenders == 3

\* Session.mix_volumes, in dB by instrument.
MixVolumes ==
    {[i \in {} |-> 0], [i \in {"kick"} |-> 0], [i \in {"kick"} |-> -3],
     [i \in {"kick", "bass"} |-> IF i = "kick" THEN 0 ELSE 2]}

MixName(n) == "mix-" \o ToString(n) \o ".json"

\* _write_mix_config: no file when no instrument has a gain other than 0.
write_mix_config(volumes, n) ==
    IF \E i \in DOMAIN volumes : volumes[i] # 0 THEN MixName(n) ELSE None

UnlinkUnlessCancelled(dsk, w, how) ==
    IF how = "cancelled" THEN dsk ELSE dsk \ {w.mix_config_path}

\* The finally clause of _worker_render.
UnlinkMixConfig(dsk, w, how) == dsk \ {w.mix_config_path}

InitRender ==
    /\ PlayerInit
    /\ quit = NoQuit
    /\ missing = {}
    /\ args \in {[mix_volumes |-> v] : v \in MixVolumes}
    /\ ret = NoRet
    /\ editor = EditorInit
    /\ lanes = NoLanes

RenderStep(ws, dsk) ==
    /\ lanes' = [lanes EXCEPT !["render"] = ws]
    /\ disk' = dsk
    /\ UNCHANGED <<process, current_file, temp_files, procs, worker, nreq,
                 quit, missing, args, ret, editor>>

\* run_render: the render workers in flight are cancelled and a new one is
\* started.
RunRender ==
    /\ Len(lanes["render"]) < MaxRenders
    /\ RenderStep(
          Append([i \in DOMAIN lanes["render"] |->
                     IF lanes["render"][i].state \in {"pending", "running"}
                     THEN [lanes["render"][i] EXCEPT !.state = "cancelling"]
                     ELSE lanes["render"][i]],
                 [state |-> "pending", pc |-> "start", mix_config_path |-> None]),
          disk)

\* _worker_render up to the await of render_fulltrack.
RenderBegin(i) ==
    /\ lanes["render"][i].state = "pending"
    /\ LET path == write_mix_config(args.mix_volumes, i)
       IN RenderStep([lanes["render"] EXCEPT ![i].state = "running",
                                             ![i].pc = "render",
                                             ![i].mix_config_path = path],
                     IF path = None THEN disk ELSE disk \cup {path})

\* render_fulltrack returns the mix or raises; on_render_complete or
\* on_render_error is called, then the finally clause runs.
RenderEnd(i) ==
    /\ lanes["render"][i].state = "running"
    /\ \E how \in {"success", "error"} :
          RenderStep([lanes["render"] EXCEPT ![i].state = how, ![i].pc = "done"],
                     UnlinkMixConfig(disk, lanes["render"][i], how))

\* The cancelled worker's task runs: a coroutine that never started is
\* dropped, one suspended in render_fulltrack leaves through the finally
\* clause.
RenderCancelled(i) ==
    /\ lanes["render"][i].state = "cancelling"
    /\ RenderStep([lanes["render"] EXCEPT ![i].state = "cancelled", ![i].pc = "done"],
                  IF lanes["render"][i].pc = "start" THEN disk
                  ELSE UnlinkMixConfig(disk, lanes["render"][i], "cancelled"))

NextRender ==
    \/ RunRender
    \/ \E i \in DOMAIN lanes["render"] : RenderBegin(i)
    \/ \E i \in DOMAIN lanes["render"] : RenderEnd(i)
    \/ \E i \in DOMAIN lanes["render"] : RenderCancelled(i)

SpecRender == InitRender /\ [][NextRender]_vars

\* ---------------------------------------------------------------- claims
LivePlayback == {p \in DOMAIN procs : procs[p].kind = "afplay" /\ procs[p].alive}

\* The step is one the worker takes (not a new request, not the OS).
WorkerStep == worker.result = "running" /\ worker' # worker /\ worker'.pc # "start"

\* No signal reaches a process in this step.
NoSignalSent == \A p \in DOMAIN procs : procs[p].alive => procs'[p].sig = procs[p].sig

\* C1: after any sequence of requests in the playback lane, superseded ones
\* included, at most one playback (afplay) process is alive at any moment.
C1_AtMostOneLivePlayback == Cardinality(LivePlayback) <= 1

C3_RenderedFilePlayed ==
    [][\A p \in DOMAIN procs' \ DOMAIN procs :
          (procs'[p].kind = "afplay" /\ procs'[p].file \notin Paths)
             => (procs'[p].file \in disk' /\ procs'[p].file \in Range(temp_files'))]_vars

\* C4: no transient file is deleted while a render process that writes it is
\* still running, also when the request that started the render was
\* superseded.  (A renderer that was already sent SIGKILL and is about to die
\* is not counted against the claim.)
C4_NoDeleteWhileRendering ==
    [][\A f \in disk \ disk' :
          ~\E p \in DOMAIN procs :
               /\ procs[p].kind = "ffmpeg" /\ procs[p].out = f
               /\ procs[p].alive /\ procs[p].sig # "kill"]_vars

\* C5: when stop() returns, whichever path it took (exit after terminate,
\* kill after the timeout, process already gone), the controller is Idle, the
\* registry is empty and every file that was registered is off the disk.
StopReturns ==
    worker.call.op = "stop" /\ worker.result = "running" /\ worker'.result = "returned"

C5_StopLeavesIdle ==
    [][StopReturns =>
          /\ process' = NoProc
          /\ ~IsPlaying(M)'
          /\ CurrentFile(M)' = None
          /\ temp_files' = <<>>
          /\ Range(temp_files) \cap disk' = {}]_vars

C5_Witness ==
    worker.call.op = "stop" /\ worker.result = "returned" /\ worker.via = "timeout"

\* C6: a stop() issued right after a stop() that returned does not raise,
\* leaves the controller Idle and changes nothing; no stop() ever raises.
SecondStop ==
    /\ worker.call.op = "stop" /\ worker.after_stop # "no"
    /\ worker.pc = "start" /\ WorkerStep

C6_StopTwice ==
    /\ [](worker.call.op = "stop" => worker.result # "raised")
    /\ [][SecondStop =>
            /\ worker'.result = "returned"
            /\ process = NoProc /\ ~IsPlaying(M)' /\ CurrentFile(M)' = None
            /\ UNCHANGED <<process, current_file, temp_files, procs, disk>>]_vars

C6_Witness ==
    /\ worker.call.op = "stop" /\ worker.result = "returned"
    /\ worker.after_stop = "timeout"

\* C7 as stated: stop() in the Idle state signals no process and leaves the
\* controller's state, the registry and the files on disk unchanged.
StopFromIdle ==
    worker.call.op = "stop" /\ worker.pc = "start" /\ ~IsPlaying(M) /\ WorkerStep

C7_IdleStopNoOp ==
    [][StopFromIdle =>
          /\ NoSignalSent
          /\ ~IsPlaying(M)' /\ CurrentFile(M)' = None
          /\ UNCHANGED <<temp_files, disk>>]_vars

\* C7 amended: stop() in the Idle state returns without suspending, signals
\* no process and leaves is_playing false and current_file None; it deletes
\* the registered transient files (leftovers of a failed or superseded
\* render) and empties the registry, and touches no other file.
C7_IdleStopCleansOnly ==
    [][StopFromIdle =>
          /\ worker'.result = "returned"
          /\ NoSignalSent
          /\ ~IsPlaying(M)' /\ CurrentFile(M)' = None
          /\ temp_files' = <<>>
          /\ disk' = disk \ Range(temp_files)]_vars

C7_Witness ==
    worker.call.op = "stop" /\ worker.result = "returned" /\ worker.via = "idle_cleanup"

\* C8: when the render of play_pitched / play_with_edits exits non-zero, the
\* operation returns without raising, starts no process and leaves the
\* controller Idle.
RenderFailedStep ==
    /\ worker.pc \in {"spawn_ffmpeg", "render_wait"}
    /\ procs[worker.child].reported /\ procs[worker.child].code # 0
    /\ WorkerStep

C8_RenderFailureIdle ==
    [][RenderFailedStep =>
          /\ worker'.result = "returned"
          /\ DOMAIN procs' = DOMAIN procs
          /\ process' = NoProc /\ ~IsPlaying(M)' /\ CurrentFile(M)' = None]_vars

C8_Witness ==
    /\ worker.call.op \in {"play_pitched", "play_with_edits"}
    /\ worker.result = "returned" /\ worker.via = "render_failed"
    /\ process = NoProc

\* C9: is_playing holds exactly when a handle is held whose process has not
\* reported an exit code; once the held process reports its exit, is_playing
\* is false and current_file is None although no stop() ran.
C9_IsPlayingProbesProcess ==
    /\ IsPlaying(M) => (process \in DOMAIN procs /\ ~procs[process].reported)
    /\ (process \in DOMAIN procs /\ ~procs[process].reported) => IsPlaying(M)
    /\ (process = NoProc \/ procs[process].reported)
          => (~IsPlaying(M) /\ CurrentFile(M) = None)
    /\ IsPlaying(M) => CurrentFile(M) = current_file

C9_Witness ==
    /\ process # NoProc /\ procs[process].reported /\ procs[process].sig = "none"
    /\ current_file # None
    /\ worker.result = "returned" /\ worker.call.op = "play"

\* C10: play_pitched(path, 0) does what play(path) does from the same state:
\* the full stop() sequence, then afplay on the original path; it never runs
\* a render and never creates or registers a transient file.
IsPitchedZero == worker.call.op = "play_pitched" /\ worker.call.semitones = 0

StepIs(r) ==
    /\ M' = Reap(r.m, r.child)
    /\ worker'.pc = r.pc /\ worker'.k = r.k /\ worker'.target = r.target
    /\ worker'.child = r.child /\ worker'.result = r.result

\* play(path) from its entry: stop(), then lines 76-81.
PlayFromEntry(path) ==
    IF IsPlaying(M)
    THEN \/ /\ ~procs[process].alive
            /\ StepIs(PlayLaunch(StopTail(M), path, "gone"))
         \/ StepIs(Seg(Signal(M, process, "term"), "stop_wait", "play", path,
                       process, "running", "none"))
    ELSE StepIs(PlayLaunch(StopTail(M), path, "idle"))

C10_PitchedZeroIsPlay ==
    /\ [](IsPitchedZero => worker.pc \notin {"spawn_ffmpeg", "render_wait"})
    /\ [][(IsPitchedZero /\ WorkerStep) =>
            /\ worker.pc = "start" => PlayFromEntry(worker.call.path)
            /\ \A p \in DOMAIN procs' \ DOMAIN procs :
                  procs'[p].kind = "afplay" /\ procs'[p].file = worker.call.path
            /\ temp_files' \in {temp_files, <<>>}
            /\ disk' \subseteq disk
            /\ worker'.result = "returned" =>
                  /\ process' \in DOMAIN procs'
                  /\ procs'[process'].kind = "afplay"
                  /\ procs'[process'].file = worker.call.path
                  /\ current_file' = worker.call.path]_vars

C10_Witness ==
    /\ IsPitchedZero /\ worker.result = "returned" /\ worker.via = "timeout"
    /\ process # NoProc /\ procs[process].file = worker.call.path

\* C11: play_with_edits whose compiled chain (edit stages and pitch stages) is
\* empty does what play(path) does from the same state: the full stop()
\* sequence, then afplay on the original path; it runs no render and creates
\* and registers no transient file.
IsEmptyChainCall ==
    /\ worker.call.op = "play_with_edits"
    /\ EditsChain(worker.call.edits, worker.call.duration_ms,
                  worker.call.semitones, NoTies) = <<>>

C11_EmptyChainIsPlay ==
    /\ [](IsEmptyChainCall => worker.pc \notin {"spawn_ffmpeg", "render_wait"})
    /\ [][(IsEmptyChainCall /\ WorkerStep) =>
            /\ worker.pc = "start" => PlayFromEntry(worker.call.path)
            /\ \A p \in DOMAIN procs' \ DOMAIN procs :
                  /\ procs'[p].kind = "afplay"
                  /\ procs'[p].file = worker.call.path
                  /\ procs'[p].file \in Paths
            /\ temp_files' \in {temp_files, <<>>}
            /\ disk' \subseteq disk
            /\ worker'.result = "returned" =>
                  /\ process' \in DOMAIN procs'
                  /\ procs'[process'].kind = "afplay"
                  /\ procs'[process'].file = worker.call.path
                  /\ current_file' = worker.call.path]_vars

C11_Witness ==
    /\ IsEmptyChainCall /\ worker.result = "returned"
    /\ worker.via \in {"timeout", "exited"}
    /\ process # NoProc /\ procs[process].kind = "afplay"
    /\ procs[process].file = worker.call.path /\ current_file = worker.call.path
    /\ temp_files = <<>>

\* C12: once the shutdown action (cleanup(), then exit) has completed, no
\* process the controller started is alive and no transient file is left,
\* also when a request was rendering or spawning in the playback lane when
\* the user quit.  (A process that was already sent a signal and has yet to
\* die, and a file such a render process is still writing, are not counted
\* against the claim.)
C12_ShutdownLeavesNothing ==
    quit.pc = "exited" =>
        /\ \A p \in DOMAIN procs : procs[p].alive => procs[p].sig # "none"
        /\ \A f \in disk :
              \E p \in DOMAIN procs :
                 procs[p].out = f /\ procs[p].alive /\ procs[p].sig = "kill"

\* C13: a process of a missing executable is never started; play,
\* play_pitched and play_with_edits return normally only after starting the
\* play process (or after a render that exited non-zero), so a launch that
\* cannot happen ends the operation with an exception; and when it raises,
\* the controller is Idle (no handle, is_playing false, current_file None),
\* nothing was spawned, and the process that was playing before has been
\* stopped: it has exited or has been sent SIGTERM or SIGKILL.
WorkerRaises == WorkerStep /\ worker'.result = "raised"

C13_SpawnFailureSurfaces ==
    /\ [][\A p \in DOMAIN procs' \ DOMAIN procs : procs'[p].kind \notin missing]_vars
    /\ [][(WorkerStep /\ worker.call.op # "stop" /\ worker'.result = "returned") =>
            \/ /\ worker.pc = "spawn_play"
               /\ process' = worker.child /\ procs'[process'].kind = "afplay"
            \/ /\ worker.pc \in {"spawn_ffmpeg", "render_wait"}
               /\ procs[worker.child].code # 0]_vars
    /\ [][WorkerRaises =>
            /\ worker.call.op \in {"play", "play_pitched", "play_with_edits"}
            /\ missing # {}
            /\ DOMAIN procs' = DOMAIN procs
            /\ process' = NoProc /\ ~IsPlaying(M)' /\ CurrentFile(M)' = None
            /\ \A p \in DOMAIN procs' :
                  (procs'[p].kind = "afplay" /\ procs'[p].alive)
                     => procs'[p].sig \in {"term", "kill"}]_vars

C13_Witness ==
    /\ worker.call.op = "play" /\ worker.result = "raised"
    /\ worker.via \in {"timeout", "exited"}
    /\ "afplay" \in missing
    /\ process = NoProc /\ current_file = worker.call.path

\* ------------------------------------------- claims on the compiled chain
Compiled == ret.op = "compile"
Chain == ret.val
Has(name) == \E i \in DOMAIN Chain : Chain[i][1] = name
StageOf(name) == Chain[CHOOSE i \in DOMAIN Chain : Chain[i][1] = name]
Occurrences(name) == Cardinality({i \in DOMAIN Chain : Chain[i][1] = name})

\* The place of a stage in the order the specification fixes.
Rank(name) ==
    CASE name = "atrim" -> 1
      [] name = "asetpts" -> 2
      [] name = "areverse" -> 3
      [] name = "afade_in" -> 4
      [] name = "afade_out" -> 5
      [] name = "volume" -> 6
      [] name = "highpass" -> 7
      [] name = "lowpass" -> 8
      [] name = "dynaudnorm" -> 9
      [] name = "asetrate" -> 10
      [] name = "aresample" -> 11

\* C14: whichever stages are present, they stand in the order trim, timestamp
\* reset, reverse, attack fade, release fade, gain, high-pass, low-pass,
\* normalize, pitch shift.
C14_StageOrder ==
    Compiled =>
        \A i, j \in DOMAIN Chain :
            i < j => Rank(Chain[i][1]) < Rank(Chain[j][1])

C14_Witness ==
    /\ Compiled /\ Len(Chain) = 11
    /\ Chain[1][1] = "atrim" /\ Chain[6][1] = "volume" /\ Chain[11][1] = "aresample"

\* C15: a default SampleEdits with pitch 0 compiles to the empty chain,
\* whatever duration_ms is, zero and negative included.
C15_DefaultIsEmpty ==
    (Compiled /\ is_default(args.edits) /\ args.pitch = 0) => Chain = <<>>

C15_Witness ==
    /\ Compiled /\ is_default(args.edits) /\ args.pitch = 0
    /\ args.duration_ms < 0 /\ Chain = <<>>

\* C16: an emitted trim stage starts at trim_start_ms and ends at
\* duration_ms - trim_end_ms, or at trim_start_ms + 50 when that end lies
\* before trim_start_ms; duration 1000, trim_start 900, trim_end 300 gives
\* the end 950.
C16_TrimClamp ==
    (Compiled /\ Has("atrim")) =>
        LET e == args.edits
            end0 == args.duration_ms - e.trim_end_ms
        IN /\ StageOf("atrim")[2] = e.trim_start_ms
           /\ end0 >= e.trim_start_ms => StageOf("atrim")[3] = end0
           /\ end0 < e.trim_start_ms => StageOf("atrim")[3] = e.trim_start_ms + 50
           /\ (args.duration_ms = 1000 /\ e.trim_start_ms = 900 /\ e.trim_end_ms = 300)
                 => StageOf("atrim")[3] = 950

C16_Witness ==
    /\ Compiled /\ args.duration_ms = 1000
    /\ args.edits.trim_start_ms = 900 /\ args.edits.trim_end_ms = 300
    /\ Has("atrim") /\ StageOf("atrim") = <<"atrim", 900, 950>>

\* C17: for duration_ms >= 0 and trims in 0..10000, an emitted trim stage
\* ends strictly after it starts.
C17_TrimNotDegenerate ==
    (/\ Compiled /\ Has("atrim") /\ args.duration_ms >= 0
     /\ args.edits.trim_start_ms \in 0..10000
     /\ args.edits.trim_end_ms \in 0..10000)
        => StageOf("atrim")[3] > StageOf("atrim")[2]

\* The fade times before they are written, in tenths of a ms.
EffectiveMs == Max(args.duration_ms - args.edits.trim_start_ms
                      - args.edits.trim_end_ms, 50)
AttackLen10 == Min(10 * args.edits.attack_ms, 9 * EffectiveMs)
ReleaseLen10 == Min(10 * args.edits.release_ms, 9 * EffectiveMs)
ReleaseStart10 == Max(10 * EffectiveMs - ReleaseLen10, 0)

\* x ms is x10 tenths of a ms rounded to the nearest ms.
NearestMs(x, x10) == 10 * x - 5 <= x10 /\ x10 <= 10 * x + 5

\* C18 as stated: the compiled attack length is min(attack_ms, 0.9 E), the
\* release length min(release_ms, 0.9 E) and the release start
\* max(E - release length, 0), for E = max(duration - trims, 50 ms).
C18_FadeExact ==
    Compiled =>
        /\ Has("afade_in") => 10 * StageOf("afade_in")[2] = AttackLen10
        /\ Has("afade_out") =>
              /\ 10 * StageOf("afade_out")[3] = ReleaseLen10
              /\ 10 * StageOf("afade_out")[2] = ReleaseStart10

\* C18 amended: the compiled attack length, release length and release start
\* are those three values rounded to the nearest millisecond (they are
\* written with three decimals of a second); they are exact when the value
\* is a whole number of ms, so E = 1000 ms and attack_ms = 5000 give 900 ms.
C18_FadeRounded ==
    Compiled =>
        /\ Has("afade_in") =>
              /\ NearestMs(StageOf("afade_in")[2], AttackLen10)
              /\ (EffectiveMs = 1000 /\ args.edits.attack_ms = 5000)
                    => StageOf("afade_in")[2] = 900
        /\ Has("afade_out") =>
              /\ NearestMs(StageOf("afade_out")[3], ReleaseLen10)
              /\ NearestMs(StageOf("afade_out")[2], ReleaseStart10)

C18_Witness ==
    /\ Compiled /\ Has("afade_in") /\ Has("afade_out")
    /\ args.edits.attack_ms = 5000 /\ EffectiveMs = 55
    /\ StageOf("afade_in")[2] = 50 /\ AttackLen10 = 495
    /\ StageOf("afade_out")[2] = 5 /\ ReleaseStart10 = 55

\* C19: a stage is in the chain, once, exactly when its condition holds; the
\* trim is directly followed by the timestamp reset, the pitch shift by its
\* resampling.
C19_StagePresence ==
    Compiled =>
        LET e == args.edits IN
        /\ Has("atrim") <=> (e.trim_start_ms > 0 \/ e.trim_end_ms > 0)
        /\ Has("atrim") => (Chain[1][1] = "atrim" /\ Chain[2][1] = "asetpts")
        /\ Has("asetpts") <=> Has("atrim")
        /\ Has("areverse") <=> e.reverse
        /\ Has("afade_in") <=> e.attack_ms > 0
        /\ Has("afade_out") <=> e.release_ms > 0
        /\ Has("volume") <=> e.gain_db # 0
        /\ Has("highpass") <=> e.hp_freq > 20
        /\ Has("lowpass") <=> e.lp_freq < 20000
        /\ Has("dynaudnorm") <=> e.normalize
        /\ Has("asetrate") <=> args.pitch # 0
        /\ Has("aresample") <=> Has("asetrate")
        /\ Has("asetrate") => Chain[Len(Chain)][1] = "aresample"
                                 /\ Chain[Len(Chain) - 1][1] = "asetrate"
        /\ \A i \in DOMAIN Chain : Occurrences(Chain[i][1]) = 1

C19_Witness ==
    /\ Compiled
    /\ Has("atrim") /\ ~Has("areverse") /\ ~Has("afade_in") /\ Has("afade_out")
    /\ Has("volume") /\ ~Has("highpass") /\ Has("lowpass") /\ ~Has("dynaudnorm")
    /\ Has("asetrate")
    /\ args.edits.trim_start_ms = 0 /\ args.edits.gain_db < 0 /\ args.pitch < 0

\* C20: is_default() is true exactly when every field has its identity
\* value: attack 0, release 0, gain 0, normalize off, high-pass 20,
\* low-pass 20000, reverse off, trim start 0, trim end 0.
C20_IsDefaultIffIdentity ==
    ret.op = "is_default" =>
        (ret.val <=>
            /\ args.edits.attack_ms = 0 /\ args.edits.release_ms = 0
            /\ args.edits.gain_db = 0 /\ ~args.edits.normalize
            /\ args.edits.hp_freq = 20 /\ args.edits.lp_freq = 20000
            /\ ~args.edits.reverse
            /\ args.edits.trim_start_ms = 0 /\ args.edits.trim_end_ms = 0)

C20_Witness ==
    /\ ret.op = "is_default" /\ ret.val = FALSE
    /\ args.edits.trim_end_ms > 0
    /\ args.edits.attack_ms = 0 /\ args.edits.release_ms = 0
    /\ args.edits.gain_db = 0 /\ ~args.edits.normalize
    /\ args.edits.hp_freq = 20 /\ args.edits.lp_freq = 20000
    /\ ~args.edits.reverse /\ args.edits.trim_start_ms = 0

\* ------------------------------------------------- claims on the editor
\* The model of an instrument: the object the editor holds for the current
\* instrument, what the session gives for the others.
ModelOf(i) ==
    IF i = editor.current_instrument THEN editor.current_edits
    ELSE get_edits(editor.session_edits, i)

\* C21: after any sequence of editor actions (adjusting, the reverse and
\* normalize toggles, switching instruments) and the set_edits calls they
\* make, Session.edits holds no entry whose model is the default one, and an
\* instrument has an entry exactly when its current model is not the default.
C21_NoDefaultStored ==
    /\ \A i \in DOMAIN editor.session_edits :
         ~is_default(from_dict(editor.session_edits[i]))
    /\ \A i \in EditedInstruments \cup {editor.current_instrument} :
         (i \in DOMAIN editor.session_edits) <=> ~is_default(ModelOf(i))

\* C21 witness: "n" has just put kick's model back to the default and its
\* entry is gone, while bass keeps its entry.
C21_Witness ==
    /\ editor.last_key = "n"
    /\ editor.current_instrument = "kick"
    /\ is_default(editor.current_edits)
    /\ "kick" \notin DOMAIN editor.session_edits
    /\ "bass" \in DOMAIN editor.session_edits

\* C23: every render request works on its own snapshot of the edit model: the
\* chain compiled for a request is the chain of the model as it was when the
\* request was issued, whatever was edited afterwards.
C23_RequestKeepsSnapshot ==
    editor.request.pc = "compiled" =>
        \E r \in Roundings :
            editor.request.chain =
                EditsChain(editor.request.issued, SampleDurationMs, 0, r)

\* -------------------------------------------------- claims on the lanes
\* An operation is active while its worker runs or the command it started is
\* still running unsignalled.
ActiveOp(w) == w.state = "running" \/ w.child = "alive"

ActiveIn(g) == {i \in DOMAIN lanes[g] : ActiveOp(lanes[g][i])}

\* C22: in each lane (playback, waveform extraction, generation of samples
\* and of arrangements, rendering) starting an operation cancels the one in
\* flight: at most one operation of a lane is active at any time, and the one
\* that is active is the newest request of the lane (no older one can still
\* run to completion).
C22_OneActivePerLane ==
    \A g \in Groups : ActiveIn(g) \subseteq {Len(lanes[g])}

\* ------------------------------------------------ claims on the waveform
Envelope == ret.val

\* The largest magnitude of samples[lo+1..hi] (the window [lo, hi) counted
\* from 0), 0 for an empty window.
WindowPeak(samples, lo, hi) ==
    IF hi <= lo THEN 0 ELSE MaxOf([k \in 1..(hi - lo) |-> Abs(samples[lo + k])])

\* x = a / b, for an envelope value x.
IsQuotient(x, a, b) == x.num * b = a * x.den

\* C24: extract returns exactly bin_count values, each in [0, 1] and equal to
\* its bin's peak divided by the largest bin peak ([4, 8, 2, 0] gives
\* [0.5, 1.0, 0.25, 0.0]); when the largest peak is 0 every value is 0 and
\* nothing is divided.
C24_Normalized ==
    ret.op = "extract" =>
        LET peaks == BinPeaks(Raw, args.bins)
            g == MaxOf(peaks)
        IN /\ Len(Envelope) = args.bins
           /\ \A k \in DOMAIN Envelope :
                /\ Envelope[k].den >= 1
                /\ 0 <= Envelope[k].num /\ Envelope[k].num <= Envelope[k].den
                /\ IF Len(Raw) >= 2 /\ g > 0
                   THEN IsQuotient(Envelope[k], peaks[k], g)
                   ELSE Envelope[k].num = 0
           /\ (args.samples = <<4, -8, 2, 0>> /\ args.bins = 4) =>
                /\ IsQuotient(Envelope[1], 1, 2) /\ IsQuotient(Envelope[2], 1, 1)
                /\ IsQuotient(Envelope[3], 1, 4) /\ IsQuotient(Envelope[4], 0, 1)

\* C24 witness: the envelope of the samples 4, -8, 2, 0 in 4 bins.
C24_Witness ==
    /\ ret.op = "extract"
    /\ args.samples = <<4, -8, 2, 0>> /\ args.bins = 4
    /\ IsQuotient(Envelope[1], 1, 2) /\ IsQuotient(Envelope[3], 1, 4)

\* C25 as stated: for n >= 1 decoded samples bin i is the largest magnitude
\* over the window [i*w, min((i+1)*w, n)) with w = floor(n / bin_count), 0 for
\* a window without samples; also when n < bin_count.
C25_BinWindowsFloor ==
    (ret.op = "extract" /\ Len(args.samples) >= 1) =>
        LET n == Len(args.samples)
            w == n \div args.bins
        IN \A b \in 1..args.bins :
             BinPeaks(Raw, args.bins)[b] =
                 WindowPeak(args.samples, (b - 1) * w, Min(b * w, n))

\* C25 amended: the window width is w = max(1, floor(n / bin_count)): with
\* fewer samples than bins the first n bins hold one sample each and the
\* others are 0.
C25_BinWindows ==
    (ret.op = "extract" /\ Len(args.samples) >= 1) =>
        LET n == Len(args.samples)
            w == Max(1, n \div args.bins)
            g == MaxOf(BinPeaks(Raw, args.bins))
        IN \A b \in 1..args.bins :
             LET peak == WindowPeak(args.samples, (b - 1) * w, Min(b * w, n))
             IN /\ BinPeaks(Raw, args.bins)[b] = peak
                /\ IF g > 0 THEN IsQuotient(Envelope[b], peak, g)
                            ELSE Envelope[b].num = 0

\* C25 witness: two samples in five bins, the second bin holds the second
\* sample.
C25_Witness ==
    /\ ret.op = "extract"
    /\ args.samples = <<4, -8>> /\ args.bins = 5
    /\ IsQuotient(Envelope[2], 1, 1) /\ IsQuotient(Envelope[1], 1, 2)
    /\ Envelope[3].num = 0

\* C26: an empty decoded stream, or one shorter than a sample, gives an
\* envelope of exactly bin_count zeros (and no error).
C26_ShortStreamZeroFilled ==
    (ret.op = "extract" /\ args.samples = <<>>) =>
        /\ Len(Envelope) = args.bins
        /\ \A k \in DOMAIN Envelope : Envelope[k] = Zero

\* C26 witness: a stream of one byte, three bins asked for.
C26_Witness ==
    /\ ret.op = "extract"
    /\ args.samples = <<>> /\ args.odd /\ args.bins = 3
    /\ Envelope = <<Zero, Zero, Zero>>

\* The level floor(7 * x), at most 7, of an envelope value.
LevelOf(x) == Min((7 * x.num) \div x.den, 7)

\* C27: render(envelope, width) gives min(len(envelope), width) glyphs, the
\* k-th being level min(floor(peak_k * 7), 7) of the 8 ordered levels: 0.0 is
\* the lowest, 1.0 the highest, 0.5 is level 3, and a larger peak never gets
\* a lower level.
C27_Glyphs ==
    ret.op = "render" =>
        /\ Len(ret.val) = Min(Len(ret.peaks), ret.width)
        /\ \A k \in DOMAIN ret.val :
             /\ ret.val[k] = WAVEFORM_BLOCKS[LevelOf(ret.peaks[k]) + 1]
             /\ IsQuotient(ret.peaks[k], 0, 1) => ret.val[k] = WAVEFORM_BLOCKS[1]
             /\ IsQuotient(ret.peaks[k], 1, 1) => ret.val[k] = WAVEFORM_BLOCKS[8]
             /\ IsQuotient(ret.peaks[k], 1, 2) => ret.val[k] = WAVEFORM_BLOCKS[4]
        /\ \A j, k \in DOMAIN ret.val :
             ret.peaks[j].num * ret.peaks[k].den <= ret.peaks[k].num * ret.peaks[j].den
                 => ret.val[j] <= ret.val[k]

\* C27 witness: the envelope 0.5, 1.0, 0.25, 0.0 drawn 3 wide.
C27_Witness ==
    /\ ret.op = "render"
    /\ ret.width = 3 /\ Len(ret.peaks) = 4
    /\ ret.val = <<WAVEFORM_BLOCKS[4], WAVEFORM_BLOCKS[8], WAVEFORM_BLOCKS[2]>>

\* ----------------------------------------------- claims on the catalogue
Buckets == ret.val

\* The 18 instruments of the enumeration.
Enumerated ==
    {"kick", "snare", "hihat", "hihat-open", "rimshot", "clap",
     "bass", "lead", "pad", "arp", "fx", "subBass",
     "vocalChop", "texture", "noise", "scratch", "atmosphere", "stab"}

\* The records of file f in the scan result.
RecordsOf(f) ==
    {<<i, k>> \in (DOMAIN Buckets) \X (1..(MaxFiles + 1)) :
        k \in DOMAIN Buckets[i] /\ Buckets[i][k].filename = f}

\* C28: scan returns a mapping whose keys are exactly the 18 enumerated
\* instruments whatever the directory holds; every bucket is empty (and
\* nothing is raised) when the directory is missing; every record of bucket i
\* has instrument i.
C28_ScanShape ==
    ret.op = "scan" =>
        /\ DOMAIN Buckets = Enumerated
        /\ Cardinality(DOMAIN Buckets) = 18
        /\ ~args.exists => \A i \in DOMAIN Buckets : Buckets[i] = <<>>
        /\ \A i \in DOMAIN Buckets : \A k \in DOMAIN Buckets[i] :
             Buckets[i][k].instrument = i

\* C28 witness: a directory with a kick file and a pedal hi-hat file (an
\* instrument outside the enumeration) has been scanned.
C28_Witness ==
    /\ ret.op = "scan"
    /\ {PoolFile.f36_kick_wav, PoolFile.f44_pedal_wav} \subseteq args.files
    /\ Len(Buckets["kick"]) = 1

\* The name of f begins with digits followed by a dash.
BeginsWithNote(f) ==
    LET k == PrefixLen(Stem(f), Digits)
    IN k >= 1 /\ Len(Stem(f)) > k /\ Stem(f)[k + 1] = "-"
NoteOf(f) == ToInt(SubSeq(Stem(f), 1, PrefixLen(Stem(f), Digits)))

\* C29 as stated: every audio file whose name begins with a MIDI note and a
\* dash, the note being in the table, is in the scan result under the table's
\* instrument with midi_note the note; a file whose note is not in the table
\* is not in the result.
C29_DrumNoteInResult ==
    ret.op = "scan" =>
        \A f \in args.files : (IsAudio(f) /\ BeginsWithNote(f)) =>
            IF NoteOf(f) \in DOMAIN DRUM_NOTE_MAP
            THEN /\ RecordsOf(f) # {}
                 /\ \A r \in RecordsOf(f) :
                      /\ r[1] = DRUM_NOTE_MAP[NoteOf(f)]
                      /\ Buckets[r[1]][r[2]].midi_note = NoteOf(f)
            ELSE RecordsOf(f) = {}

\* C29 amended: such a file is classified as the table's instrument with
\* midi_note the note, and it is in the scan result, under that instrument,
\* exactly when the instrument is one of the 18 enumerated ones: the files of
\* the notes 44, 49, 51, 56 and 75 (pedal-hihat, crash, ride, cowbell, clave)
\* are classified and left out.  A file whose note is not in the table is
\* not classified and not in the result.
C29_DrumNoteEnumerated ==
    /\ ret.op = "scan" =>
         \A f \in args.files : (IsAudio(f) /\ BeginsWithNote(f)) =>
            IF NoteOf(f) \in DOMAIN DRUM_NOTE_MAP /\ DRUM_NOTE_MAP[NoteOf(f)] \in Enumerated
            THEN /\ RecordsOf(f) # {}
                 /\ \A r \in RecordsOf(f) :
                      /\ r[1] = DRUM_NOTE_MAP[NoteOf(f)]
                      /\ Buckets[r[1]][r[2]].midi_note = NoteOf(f)
            ELSE RecordsOf(f) = {}
    /\ (ret.op = "parse" /\ BeginsWithNote(ret.file)) =>
         IF NoteOf(ret.file) \in DOMAIN DRUM_NOTE_MAP
         THEN /\ ret.val.instrument = DRUM_NOTE_MAP[NoteOf(ret.file)]
              /\ ret.val.midi_note = NoteOf(ret.file)
              /\ ret.val.variant_num = NoNum
         ELSE ret.val = NoSample

\* C29 witness: 36-kick.wav is in the kick bucket with midi_note 36, and
\* 44-pedal.wav and 99-unknown.wav of the same directory are in no bucket.
C29_Witness ==
    /\ ret.op = "scan"
    /\ args.files = {PoolFile.f36_kick_wav, PoolFile.f44_pedal_wav, PoolFile.f99_unknown_wav}
    /\ Buckets["kick"] = <<SampleFile(PoolFile.f36_kick_wav, "kick", NoNum, 36)>>
    /\ RecordsOf(PoolFile.f44_pedal_wav) = {} /\ RecordsOf(PoolFile.f99_unknown_wav) = {}

\* The stem of f is name, then "-v", then digits only (at least one).
IsVariantOf(f, name) ==
    LET st == Stem(f)
        n == Len(name)
    IN /\ n >= 1 /\ Len(st) >= n + 3
       /\ SubSeq(st, 1, n) = name
       /\ st[n + 1] = "-" /\ st[n + 2] = "v"
       /\ \A k \in (n + 3)..Len(st) : st[k] \in Digits
VariantNum(f, name) == ToInt(SubSeq(Stem(f), Len(name) + 3, Len(Stem(f))))

\* C30: for every instrument name of the enumeration and every digit string
\* n, an audio file <name>-v<n> is classified as that instrument with
\* variant number n; a file <name>-v<n> whose name is not in the enumeration
\* is skipped (a name that the drum-note pattern, tried first, takes is left
\* aside).
C30_VariantClassified ==
    ret.op = "parse" =>
        /\ \A i \in Enumerated : IsVariantOf(ret.file, Spell[i]) =>
             /\ ret.val.instrument = i
             /\ ret.val.variant_num = VariantNum(ret.file, Spell[i])
        /\ \A n \in 1..Len(Stem(ret.file)) :
             LET name == SubSeq(Stem(ret.file), 1, n)
             IN (/\ IsVariantOf(ret.file, name)
                 /\ ~BeginsWithNote(ret.file)
                 /\ \A i \in Enumerated : Spell[i] # name)
                    => ret.val = NoSample

\* ------------------------------------------- claims on the persisted edits
\* C31: get_edits(i) right after set_edits(i, e) returns a model equal to e
\* (a default e is read back as the default through the absent record);
\* get_edits of an instrument without a record returns the default model; and
\* set_edits(i, e) leaves the record of every other instrument as it was.
C31_SetGetRoundTrip ==
    /\ ret.op = "set_get" =>
         /\ ret.val = args.model
         /\ is_default(args.model) => ret.instrument \notin DOMAIN ret.edits
         /\ \A j \in EditedInstruments \ {ret.instrument} :
              /\ (j \in DOMAIN ret.edits) <=> (j \in DOMAIN args.edits)
              /\ j \in DOMAIN ret.edits => ret.edits[j] = args.edits[j]
    /\ (ret.op = "get" /\ ret.instrument \notin DOMAIN ret.edits) =>
         ret.val = DefaultEdits

\* C31 witness: a model with trim, low-pass and normalize was stored over an
\* older record of kick and read back, bass keeping its record.
C31_Witness ==
    /\ ret.op = "set_get"
    /\ args.instrument = "kick" /\ args.model.trim_end_ms = 300
    /\ "kick" \in DOMAIN args.edits /\ args.edits["kick"] = [reverse |-> TRUE]
    /\ "bass" \in DOMAIN ret.edits
    /\ ret.val.trim_end_ms = 300 /\ ret.val.normalize /\ ~ret.val.reverse

\* ------------------------------------------- claims on the adjustments
\* The ranges of the numeric fields.
FieldMin ==
    [attack_ms |-> 0, release_ms |-> 0, gain_db |-> -24, hp_freq |-> 20,
     lp_freq |-> 200, trim_start_ms |-> 0, trim_end_ms |-> 0]
FieldMax ==
    [attack_ms |-> 2000, release_ms |-> 2000, gain_db |-> 12, hp_freq |-> 5000,
     lp_freq |-> 20000, trim_start_ms |-> 10000, trim_end_ms |-> 10000]

\* The value the last key asked for, before clamping.
Wanted ==
    LET p == EDITOR_PARAMS[ret.idx + 1]
    IN ret.before[p.attr]
         + (IF ret.key \in {"shift+left", "shift+right"} THEN p.coarse ELSE p.fine)
           * (IF ret.key \in {"right", "shift+right"} THEN 1 ELSE -1)

\* C32: after any sequence of fine and coarse adjustments every numeric field
\* is inside its range (attack and release 0..2000, gain -24..12, high-pass
\* 20..5000, low-pass 200..20000, the trims 0..10000); an adjustment that
\* would pass a bound leaves the field at the bound, any other sets the field
\* to the stepped value, and no other field changes.
C32_FieldsInRange ==
    /\ \A f \in DOMAIN FieldMin : FieldMin[f] <= ret.val[f] /\ ret.val[f] <= FieldMax[f]
    /\ ret.op = "adjust" =>
         LET f == EDITOR_PARAMS[ret.idx + 1].attr
         IN /\ \A g \in DOMAIN DefaultEdits \ {f} : ret.val[g] = ret.before[g]
            /\ ret.val[f] = IF Wanted > FieldMax[f] THEN FieldMax[f]
                            ELSE IF Wanted < FieldMin[f] THEN FieldMin[f]
                            ELSE Wanted

\* C32 witness: a coarse step up from gain 10 has stopped at 12.
C32_Witness ==
    /\ ret.op = "adjust"
    /\ ret.key = "shift+right" /\ ret.idx = 2
    /\ ret.before.gain_db = 10 /\ ret.val.gain_db = 12

\* C33: a transient file is on disk only while it is registered, so when a
\* stop() (or cleanup(), which is stop()) returns, after whatever requests
\* came before it, no transient file is on disk.  (Only a file whose render
\* process was never sent a signal is counted against the claim: what a
\* renderer does between its SIGKILL and its death is left out.)
Unsignalled(ps, f) ==
    \E p \in DOMAIN ps : ps[p].out = f /\ ps[p].sig = "none"

C33_NoTransientAfterStop ==
    [][StopReturns => \A f \in disk' : ~Unsignalled(procs', f)]_vars

\* C34: whenever a trim stage is emitted, the effective duration that times
\* the fades is the length of the region the trim stage keeps (end - start),
\* so the release fade (its start plus its length) ends within the trimmed
\* audio.  (A trim stage that keeps nothing, end = start, is left out.)
TrimRegionMs == StageOf("atrim")[3] - StageOf("atrim")[2]

C34_FadesFitTrimRegion ==
    (Compiled /\ Has("atrim") /\ TrimRegionMs > 0) =>
        /\ EffectiveMs = TrimRegionMs
        /\ Has("afade_out") =>
              StageOf("afade_out")[2] + StageOf("afade_out")[3] <= TrimRegionMs

\* C35: every decoded sample lies in exactly one of the bin_count windows, so
\* for a stream that is not silent the loudest sample sets the peak of its
\* bin and that bin's normalized value is 1.
Magnitudes == [k \in DOMAIN args.samples |-> Abs(args.samples[k])]

C35_EverySampleBinned ==
    (ret.op = "extract" /\ Len(args.samples) >= 1 /\ MaxOf(Magnitudes) > 0) =>
        LET n == Len(args.samples)
            w == BinSize(n, args.bins)
        IN /\ \A k \in 1..n :
                \E b \in 1..args.bins :
                   /\ (b - 1) * w < k /\ k <= Min(b * w, n)
                   /\ \A c \in 1..args.bins :
                        ((c - 1) * w < k /\ k <= Min(c * w, n)) => c = b
           /\ \E b \in 1..args.bins :
                /\ BinPeaks(Raw, args.bins)[b] = MaxOf(Magnitudes)
                /\ IsQuotient(Envelope[b], 1, 1)

\* C36: whenever the screen asks for play_with_edits of a sample, the
\* duration_ms it hands over is the decoded duration of that sample.
C36_DurationOfPlayedSample ==
    editor.request.op = "play_with_edits" =>
        editor.request.duration_ms = DecodedMs[editor.request.path]

\* C37: what on_waveform_loaded delivers is the envelope and the duration of
\* the sample whose extraction was requested last, and a worker that was
\* superseded delivers nothing.
C37_DeliversLatestRequest ==
    [][editor'.deliveries # editor.deliveries =>
          /\ editor.requested # None
          /\ editor'.waveform_peaks = PeaksOf(editor.requested)
          /\ editor'.sample_duration_ms = DecodedMs[editor.requested]
          /\ \A i \in DOMAIN lanes["waveform"] :
                lanes["waveform"][i].state = "cancelled"
                   => lanes'["waveform"][i] = lanes["waveform"][i]]_vars

\* C37 witness: the second of two extractions, requested for another sample
\* while the first was in flight, has delivered.
C37_Witness ==
    /\ Len(lanes["waveform"]) >= 2
    /\ lanes["waveform"][1].state = "cancelled"
    /\ lanes["waveform"][2].state = "success"
    /\ lanes["waveform"][1].path # lanes["waveform"][2].path
    /\ editor.waveform_peaks = PeaksOf(lanes["waveform"][2].path)

\* C38: an instrument that is in the generating set leaves it once its
\* generation subprocesses have finished, whether they succeeded or failed
\* and whichever screen is active then.
C38_GeneratingLeaves ==
    \A inst \in EditedInstruments :
       (inst \in editor.generating) ~> (inst \notin editor.generating)

\* C39: every selection names a sample that is in its instrument's bucket of
\* the latest scan.
C39_SelectionsExist ==
    \A inst \in DOMAIN editor.selections :
       \E k \in DOMAIN editor.samples[inst] :
          editor.samples[inst][k].filename = editor.selections[inst]

\* C40: when a render worker has ended, by success, by an error or by
\* cancellation from a newer render, the mix-config file it wrote is off
\* the disk: every mix-config file on disk belongs to a worker that has not
\* ended yet.
C40_MixConfigDeleted ==
    /\ \A i \in DOMAIN lanes["render"] :
          lanes["render"][i].pc = "done" => lanes["render"][i].mix_config_path \notin disk
    /\ \A f \in disk :
          \E i \in DOMAIN lanes["render"] :
             lanes["render"][i].mix_config_path = f /\ lanes["render"][i].pc # "done"

\* C40 witness: three renders that each wrote a mix-config file have ended,
\* one cancelled while rendering, one with an error, one successfully, and
\* no file is left.
C40_Witness ==
    /\ Len(lanes["render"]) = 3
    /\ {lanes["render"][i].state : i \in 1..3} = {"cancelled", "error", "success"}
    /\ \A i \in 1..3 : lanes["render"][i].mix_config_path = MixName(i)
    /\ disk = {}

====
